---- MODULE Spec2Model ----
(***************************************************************************)
(* AAMVA DL/ID incremental parser (dlid-hid-js).                           *)
(*                                                                         *)
(* Strings are sequences of one-character strings; a JavaScript index i    *)
(* (0-based) is the sequence index i + 1.                                  *)
(***************************************************************************)
EXTENDS Integers, Sequences, FiniteSets, TLC

VARIABLES
    reader,     \* the StringIO shared with the parser: [data, pos]
    funcs,      \* _Parser.funcs: the queue of pending parse functions
    result,     \* _Parser.result: the ParseResult held by the engine
    pending,    \* characters the scanner has not delivered yet
    outcome,    \* what the parse() call just made did: "result", an error
                \* class, or "none" when the last call was an append
    before,     \* engine state right before the last function parse() ran
    firstErr,   \* the first validation error raised: [out, at], or NoErr
    suspended,  \* TRUE once a parse() call has raised EOF
    log,        \* the functions that returned normally, in order: the
                \* function f, the cursor before (at) and after (to), the
                \* subfile reader sf it left, the follow-ups it returned
                \* (next; last when none) and the queue after it
    design,     \* which append-driven _Parser is in use: "steps" (mutable
                \* step list) or "single" (single-pass)
    parser,     \* the fields of that _Parser
    todo,       \* characters not yet fed to it
    returned,   \* what the last append() returned: "true", "false",
                \* "never" when it does not return, "none" before any call
    sio,        \* a StringIO used on its own: [data, pos]
    call,       \* the last call made on it: [op, n, d, eof, ret, was], with
                \* was the StringIO right before the call
    prev,       \* the call made before that one
    input,      \* the input handler in use: the fields of _Input (parser,
                \* reader, state, timeout) or of the legacy InputState
    capture,    \* what happened to the handler's capture: the value when it
                \* started, the characters fed since, how it ended
    keys        \* characters the user or scanner has not typed yet

parseVars ==
    <<reader, funcs, result, pending, outcome, before, firstErr, suspended, log>>

appendVars == <<design, parser, todo, returned>>

ioVars == <<sio, call, prev>>

inputVars == <<input, capture, keys>>

vars == <<parseVars, appendVars, ioVars, inputVars>>

(***************************************************************************)
(* Characters                                                              *)
(***************************************************************************)
DecDigits == <<"0", "1", "2", "3", "4", "5", "6", "7", "8", "9">>
HexLower == DecDigits \o <<"a", "b", "c", "d", "e", "f">>
HexUpper == DecDigits \o <<"A", "B", "C", "D", "E", "F">>

Range(s) == {s[i] : i \in 1..Len(s)}

Digit == Range(DecDigits)
UpperCase == {"A", "B", "C", "D", "E", "F", "G", "H", "I", "J", "K", "L", "M",
              "N", "O", "P", "Q", "R", "S", "T", "U", "V", "W", "X", "Y", "Z"}
LowerCase == {"a", "b", "c", "d", "e", "f", "g", "h", "i", "j", "k", "l", "m",
              "n", "o", "p", "q", "r", "s", "t", "u", "v", "w", "x", "y", "z"}
\* StrWhiteSpaceChar of ECMAScript: WhiteSpace (tab, vertical tab, form
\* feed, space, no-break space, byte order mark, the Unicode space
\* separators) and LineTerminator
WhiteSpace ==
    {" ", "\t", "\n", "\r", "\f", "\\x0b", "\\xa0", "\\u1680",
     "\\u2000", "\\u2001", "\\u2002", "\\u2003", "\\u2004", "\\u2005",
     "\\u2006", "\\u2007", "\\u2008", "\\u2009", "\\u200a",
     "\\u2028", "\\u2029", "\\u202f", "\\u205f", "\\u3000", "\\ufeff"}

MinOf(S) == CHOOSE x \in S : \A y \in S : x <= y
Clamp(x, len) == IF x < 0 THEN 0 ELSE IF x > len THEN len ELSE x

\* String.prototype.substring(a, b): both ends clamped to [0, length], then
\* swapped when a > b.
substring(s, a, b) ==
    LET ca == Clamp(a, Len(s))
        cb == Clamp(b, Len(s))
        lo == IF ca <= cb THEN ca ELSE cb
        hi == IF ca <= cb THEN cb ELSE ca
    IN SubSeq(s, lo + 1, hi)

(***************************************************************************)
(* parseInt(string) without a radix                                        *)
(***************************************************************************)
NaN == [nan |-> TRUE, val |-> 0]

digitValue(c) ==
    CHOOSE v \in 0..15 : c = HexLower[v + 1] \/ c = HexUpper[v + 1]

isRadixDigit(c, radix) ==
    \E v \in 0..(radix - 1) : c = HexLower[v + 1] \/ c = HexUpper[v + 1]

RECURSIVE toNumber(_, _, _, _, _)
toNumber(s, i, last, radix, acc) ==
    IF i > last THEN acc
    ELSE toNumber(s, i + 1, last, radix, acc * radix + digitValue(s[i]))

parseInt(s) ==
    LET n == Len(s)
        body == {i \in 1..n : s[i] \notin WhiteSpace}
    IN IF body = {} THEN NaN
       ELSE LET b == MinOf(body)
                signed == s[b] \in {"+", "-"}
                sign == IF s[b] = "-" THEN -1 ELSE 1
                d == IF signed THEN b + 1 ELSE b
                hex == d + 1 <= n /\ s[d] = "0" /\ s[d + 1] \in {"x", "X"}
                radix == IF hex THEN 16 ELSE 10
                first == IF hex THEN d + 2 ELSE d
                stops == {i \in first..n : ~isRadixDigit(s[i], radix)}
                last == IF stops = {} THEN n ELSE MinOf(stops) - 1
            IN IF last < first THEN NaN
               ELSE [nan |-> FALSE,
                     val |-> sign * toNumber(s, first, last, radix, 0)]

(***************************************************************************)
(* StringIO                                                                *)
(***************************************************************************)
StringIO(data, pos) == [data |-> data, pos |-> pos]

avail(io) == Len(io.data) - io.pos

\* peek(n): [eof, s]; eof stands for `throw new EOF()`
peek(io, n) ==
    IF n > avail(io)
    THEN [eof |-> TRUE, s |-> <<>>]
    ELSE [eof |-> FALSE, s |-> substring(io.data, io.pos, io.pos + n)]

\* read(n) taking what is there before it raises EOF
readPartial(io, n) ==
    LET res == peek(io, n)
    IN IF res.eof
       THEN [eof |-> TRUE, s |-> <<>>, pos |-> io.pos + avail(io)]
       ELSE [eof |-> FALSE, s |-> res.s, pos |-> io.pos + n]

\* read(n): [eof, s, pos]; pos is the cursor after the call
read(io, n) ==
    LET res == peek(io, n)
    IN IF res.eof
       THEN [eof |-> TRUE, s |-> <<>>, pos |-> io.pos]
       ELSE [eof |-> FALSE, s |-> res.s, pos |-> io.pos + n]

\* append(d) that starts the reader over
appendRewinds(io, d) == [data |-> io.data \o d, pos |-> 0]

append(io, d) == [io EXCEPT !.data = io.data \o d]

(***************************************************************************)
(* Parse functions of the step-queue parser (parse.ts, immutable result).  *)
(* A ParseFunc is a record: its kind k and what its closure captured (the  *)
(* designator sd, the subfile reader sf, the subfile type and its record   *)
(* map).  Applying one yields [out, pos, result, next]: out is "ok" or the *)
(* class of the error thrown, pos the main reader's cursor afterwards.     *)
(***************************************************************************)
SUBFILE_DESIGNATOR_SIZE == 10

NoSD == [type |-> <<>>, offset |-> 0, length |-> 0]
NoReader == StringIO(<<>>, 0)

\* the JavaScript value undefined
Undefined == [undefined |-> TRUE]

Func(k) ==
    [k |-> k, sd |-> NoSD, sf |-> NoReader, sfType |-> <<>>, records |-> <<>>]

\* sf is the subfile reader as the function leaves it (NoReader when the
\* function has none)
ReturnSf(pos, res, next, sf) ==
    [out |-> "ok", pos |-> pos, result |-> res, next |-> next, sf |-> sf]
Return(pos, res, next) == ReturnSf(pos, res, next, NoReader)
Throw(cls, pos, res) ==
    [out |-> cls, pos |-> pos, result |-> res, next |-> <<>>, sf |-> NoReader]

\* class hierarchy: EOF extends Error; ParseError extends Error;
\* HeaderParseError extends ParseError
instanceOf(cls, parent) ==
    \/ cls = parent
    \/ cls = "HeaderParseError" /\ parent = "ParseError"

\* invalidSeparatorPattern = /[a-zA-Z0-9 ]/ tested on one character
invalidSeparatorPattern(c) == c \in UpperCase \cup LowerCase \cup Digit \cup {" "}

\* recordKeyPattern = /[A-Z]{3}/ tested on a string
recordKeyPattern(key) ==
    \E i \in 1..(Len(key) - 2) :
        key[i] \in UpperCase /\ key[i + 1] \in UpperCase /\ key[i + 2] \in UpperCase

\* readSeparator with the pattern /[a-zA-Z0-9]/, which lets a space through
readSeparatorAllowsSpace(io) ==
    LET r == read(io, 1)
    IN IF r.eof THEN [out |-> "EOF", pos |-> io.pos, sep |-> <<>>]
       ELSE IF r.s[1] \in UpperCase \cup LowerCase \cup Digit
       THEN [out |-> "HeaderParseError", pos |-> r.pos, sep |-> <<>>]
       ELSE [out |-> "ok", pos |-> r.pos, sep |-> r.s]

\* readSeparator(reader): [out, pos, sep]
readSeparator(io) ==
    LET r == read(io, 1)
    IN IF r.eof THEN [out |-> "EOF", pos |-> io.pos, sep |-> <<>>]
       ELSE IF invalidSeparatorPattern(r.s[1])
       THEN [out |-> "HeaderParseError", pos |-> r.pos, sep |-> <<>>]
       ELSE [out |-> "ok", pos |-> r.pos, sep |-> r.s]

headerFuncs ==
    <<Func("marker"), Func("dataElementSeparator"), Func("recordSeparator"),
      Func("segmentTerminator"), Func("ansi"), Func("iin"),
      Func("aamvaVersion"), Func("jurisdictionVersion"), Func("numEntries")>>

makeParseHeaderFunc(io, res) == Return(io.pos, res, headerFuncs)

headerMarker(io, res) ==
    LET a == read(io, 1)
    IN IF a.eof THEN Throw("EOF", io.pos, res)
       ELSE IF a.s # <<"@">> THEN Throw("HeaderParseError", a.pos, res)
       ELSE Return(a.pos, res, <<>>)

headerDataElementSeparator(io, res) ==
    LET r == readSeparator(io)
    IN IF r.out # "ok" THEN Throw(r.out, r.pos, res)
       ELSE Return(r.pos, [res EXCEPT !.header.dataElementSeparator = r.sep], <<>>)

headerRecordSeparator(io, res) ==
    LET r == readSeparator(io)
    IN IF r.out # "ok" THEN Throw(r.out, r.pos, res)
       ELSE Return(r.pos, [res EXCEPT !.header.recordSeparator = r.sep], <<>>)

headerSegmentTerminator(io, res) ==
    LET r == readSeparator(io)
    IN IF r.out # "ok" THEN Throw(r.out, r.pos, res)
       ELSE Return(r.pos, [res EXCEPT !.header.segmentTerminator = r.sep], <<>>)

\* the "ANSI " literal read one character at a time: the characters that
\* are there are consumed before EOF is raised
headerAnsiCharByChar(io, res) ==
    LET r == read(io, 5)
    IN IF r.eof THEN Throw("EOF", io.pos + avail(io), res)
       ELSE IF r.s # <<"A", "N", "S", "I", " ">> THEN Throw("ParseError", r.pos, res)
       ELSE Return(r.pos, res, <<>>)

\* a wrong "ANSI " literal raised as a HeaderParseError
headerAnsiHeaderClass(io, res) ==
    LET r == read(io, 5)
    IN IF r.eof THEN Throw("EOF", io.pos, res)
       ELSE IF r.s # <<"A", "N", "S", "I", " ">>
       THEN Throw("HeaderParseError", r.pos, res)
       ELSE Return(r.pos, res, <<>>)

headerAnsi(io, res) ==
    LET r == read(io, 5)
    IN IF r.eof THEN Throw("EOF", io.pos, res)
       ELSE IF r.s # <<"A", "N", "S", "I", " ">> THEN Throw("ParseError", r.pos, res)
       ELSE Return(r.pos, res, <<>>)

headerIin(io, res) ==
    LET r == read(io, 6)
    IN IF r.eof THEN Throw("EOF", io.pos, res)
       ELSE Return(r.pos, [res EXCEPT !.header.iin = r.s], <<>>)

\* aamvaVersion stored in the jurisdictionVersion field
headerAamvaVersionMisplaced(io, res) ==
    LET r == read(io, 2)
    IN IF r.eof THEN Throw("EOF", io.pos, res)
       ELSE Return(r.pos, [res EXCEPT !.header.jurisdictionVersion = r.s], <<>>)

headerAamvaVersion(io, res) ==
    LET r == read(io, 2)
    IN IF r.eof THEN Throw("EOF", io.pos, res)
       ELSE Return(r.pos, [res EXCEPT !.header.aamvaVersion = r.s], <<>>)

headerJurisdictionVersion(io, res) ==
    LET r == read(io, 2)
    IN IF r.eof THEN Throw("EOF", io.pos, res)
       ELSE Return(r.pos, [res EXCEPT !.header.jurisdictionVersion = r.s], <<>>)

headerNumEntries(io, res) ==
    LET r == read(io, 2)
        numEntries == parseInt(r.s)
    IN IF r.eof THEN Throw("EOF", io.pos, res)
       ELSE IF numEntries.nan THEN Throw("ParseError", r.pos, res)
       ELSE Return(r.pos, [res EXCEPT !.header.numEntries = numEntries.val], <<>>)

makeParseSubfileDesignatorsFunc(io, res) ==
    LET entries == res.header.numEntries
    IN Return(io.pos, res,
              [i \in 1..(IF entries > 0 THEN entries ELSE 0) |->
                  Func("parseSubfileDesignator")])

\* the (type, offset, length) of a 10-character block: offset and length
\* are parseInt results
decodeDesignator(block) ==
    [type |-> SubSeq(block, 1, 2),
     offset |-> parseInt(SubSeq(block, 3, 6)),
     length |-> parseInt(SubSeq(block, 7, 10))]

\* the designator read field by field from the main reader: the type is
\* consumed before the rest of the block is known to be there
designatorReadInPlace(io, res) ==
    LET type == read(io, 2)
        rest == peek(StringIO(io.data, type.pos), SUBFILE_DESIGNATOR_SIZE - 2)
        d == decodeDesignator(type.s \o rest.s)
    IN IF type.eof THEN Throw("EOF", io.pos, res)
       ELSE IF rest.eof THEN Throw("EOF", type.pos, res)
       ELSE IF d.offset.nan \/ d.length.nan THEN Throw("ParseError", io.pos, res)
       ELSE Return(io.pos + SUBFILE_DESIGNATOR_SIZE,
                   [res EXCEPT !.subfileDesignators =
                       Append(@, [type |-> d.type, offset |-> d.offset.val,
                                  length |-> d.length.val])],
                   <<>>)

\* the offset validated as soon as its 4 characters are there, before the
\* whole block is
designatorValidatedEarly(io, res) ==
    LET head == peek(io, 6)
        p == peek(io, SUBFILE_DESIGNATOR_SIZE)
        d == decodeDesignator(p.s)
    IN IF ~head.eof /\ parseInt(SubSeq(head.s, 3, 6)).nan
       THEN Throw("ParseError", io.pos, res)
       ELSE IF p.eof THEN Throw("EOF", io.pos, res)
       ELSE IF d.offset.nan \/ d.length.nan THEN Throw("ParseError", io.pos, res)
       ELSE Return(io.pos + SUBFILE_DESIGNATOR_SIZE,
                   [res EXCEPT !.subfileDesignators =
                       Append(@, [type |-> d.type, offset |-> d.offset.val,
                                  length |-> d.length.val])],
                   <<>>)

makeParseSubfileDesignatorFunc(io, res) ==
    LET p == peek(io, SUBFILE_DESIGNATOR_SIZE)
        d == decodeDesignator(p.s)
    IN IF p.eof THEN Throw("EOF", io.pos, res)
       ELSE IF d.offset.nan THEN Throw("ParseError", io.pos, res)
       ELSE IF d.length.nan THEN Throw("ParseError", io.pos, res)
       ELSE Return(io.pos + SUBFILE_DESIGNATOR_SIZE,
                   [res EXCEPT !.subfileDesignators =
                       Append(@, [type |-> d.type, offset |-> d.offset.val,
                                  length |-> d.length.val])],
                   <<>>)

makeParseSubfilesFunc(io, res) ==
    Return(io.pos, res,
           [i \in 1..Len(res.subfileDesignators) |->
               [Func("parseSubfile") EXCEPT !.sd = res.subfileDesignators[i]]])

isDLID(type) == type = <<"D", "L">> \/ type = <<"I", "D">>

\* the range of a subfile of another type not looked at
parseSubfileSkipsRange(io, res, subfileDesignator) ==
    LET copied == StringIO(io.data, subfileDesignator.offset)
        p == peek(copied, subfileDesignator.length)
        sfReader == StringIO(p.s, 0)
        skip == read(sfReader, 2)
    IN IF ~isDLID(subfileDesignator.type) THEN ReturnSf(io.pos, res, <<>>, NoReader)
       ELSE IF p.eof \/ skip.eof THEN Throw("EOF", io.pos, res)
       ELSE ReturnSf(io.pos, res,
                     <<[Func("maybeParseRecord") EXCEPT
                           !.sf = StringIO(p.s, skip.pos),
                           !.sfType = subfileDesignator.type]>>,
                     StringIO(p.s, skip.pos))

\* a subfile of another type entered into subfiles with an empty record map
parseSubfileStoresEmpty(io, res, subfileDesignator) ==
    LET copied == StringIO(io.data, subfileDesignator.offset)
        p == peek(copied, subfileDesignator.length)
        sfReader == StringIO(p.s, 0)
        skip == read(sfReader, 2)
    IN IF p.eof THEN Throw("EOF", io.pos, res)
       ELSE IF isDLID(subfileDesignator.type)
       THEN IF skip.eof THEN Throw("EOF", io.pos, res)
            ELSE ReturnSf(io.pos, res,
                          <<[Func("maybeParseRecord") EXCEPT
                                !.sf = StringIO(p.s, skip.pos),
                                !.sfType = subfileDesignator.type]>>,
                          StringIO(p.s, skip.pos))
       ELSE ReturnSf(io.pos,
                     [res EXCEPT !.subfiles =
                         Append(@, <<subfileDesignator.type, <<>>>>)],
                     <<>>, sfReader)

parseSubfile(io, res, subfileDesignator) ==
    LET copied == StringIO(io.data, subfileDesignator.offset)
        p == peek(copied, subfileDesignator.length)
        sfReader == StringIO(p.s, 0)
        skip == read(sfReader, 2)
    IN IF p.eof THEN Throw("EOF", io.pos, res)
       ELSE IF isDLID(subfileDesignator.type)
       THEN IF skip.eof THEN Throw("EOF", io.pos, res)
            ELSE ReturnSf(io.pos, res,
                          <<[Func("maybeParseRecord") EXCEPT
                                !.sf = StringIO(p.s, skip.pos),
                                !.sfType = subfileDesignator.type]>>,
                          StringIO(p.s, skip.pos))
       ELSE ReturnSf(io.pos, res, <<>>, sfReader)

\* Map.prototype.set on a map kept as a sequence of <<key, value>> pairs in
\* insertion order: an existing key keeps its place
mapSet(m, key, val) ==
    IF \E i \in 1..Len(m) : m[i][1] = key
    THEN [i \in 1..Len(m) |-> IF m[i][1] = key THEN <<key, val>> ELSE m[i]]
    ELSE Append(m, <<key, val>>)

mapHas(m, key) == \E i \in 1..Len(m) : m[i][1] = key

maybeParseRecord(io, res, f) ==
    LET next == peek(f.sf, 1)
        stored == [res EXCEPT !.subfiles = mapSet(@, f.sfType, f.records)]
    IN IF next.eof THEN ReturnSf(io.pos, stored, <<>>, f.sf)
       ELSE IF next.s = res.header.segmentTerminator
       THEN ReturnSf(io.pos, stored, <<>>, StringIO(f.sf.data, read(f.sf, 1).pos))
       ELSE ReturnSf(io.pos, res, <<[f EXCEPT !.k = "parseRecord"]>>, f.sf)

\* the value scan stopping at the data-element separator only
parseRecordIgnoresTerminator(io, res, f) ==
    LET copied == StringIO(f.sf.data, f.sf.pos)
        key == read(copied, 3)
        isEnd(c) == <<c>> = res.header.dataElementSeparator
        ends == {i \in (key.pos + 1)..Len(copied.data) : isEnd(copied.data[i])}
        endAt == MinOf(ends)
        val == SubSeq(copied.data, key.pos + 1, endAt - 1)
        afterSep == f.sf.pos + Len(key.s) + Len(val) + 1
    IN IF key.eof THEN Throw("EOF", io.pos, res)
       ELSE IF ~recordKeyPattern(key.s) THEN Throw("ParseError", io.pos, res)
       ELSE IF ends = {} THEN Throw("EOF", io.pos, res)
       ELSE ReturnSf(io.pos, res,
                     <<[f EXCEPT !.k = "maybeParseRecord",
                                 !.sf = StringIO(f.sf.data, afterSep),
                                 !.records = mapSet(@, key.s, val)]>>,
                     StringIO(f.sf.data, afterSep))

\* the data-element separator that ends a record left unread
parseRecordLeavesSeparator(io, res, f) ==
    LET copied == StringIO(f.sf.data, f.sf.pos)
        key == read(copied, 3)
        isEnd(c) == <<c>> = res.header.segmentTerminator
                    \/ <<c>> = res.header.dataElementSeparator
        ends == {i \in (key.pos + 1)..Len(copied.data) : isEnd(copied.data[i])}
        endAt == MinOf(ends)
        val == SubSeq(copied.data, key.pos + 1, endAt - 1)
        afterRecord == f.sf.pos + Len(key.s) + Len(val)
    IN IF key.eof THEN Throw("EOF", io.pos, res)
       ELSE IF ~recordKeyPattern(key.s) THEN Throw("ParseError", io.pos, res)
       ELSE IF ends = {} THEN Throw("EOF", io.pos, res)
       ELSE ReturnSf(io.pos, res,
                     <<[f EXCEPT !.k = "maybeParseRecord",
                                 !.sf = StringIO(f.sf.data, afterRecord),
                                 !.records = mapSet(@, key.s, val)]>>,
                     StringIO(f.sf.data, afterRecord))

parseRecord(io, res, f) ==
    LET copied == StringIO(f.sf.data, f.sf.pos)
        key == read(copied, 3)
        isEnd(c) == <<c>> = res.header.segmentTerminator
                    \/ <<c>> = res.header.dataElementSeparator
        ends == {i \in (key.pos + 1)..Len(copied.data) : isEnd(copied.data[i])}
        endAt == MinOf(ends)
        val == SubSeq(copied.data, key.pos + 1, endAt - 1)
        afterRecord == f.sf.pos + Len(key.s) + Len(val)
        afterSep == IF <<copied.data[endAt]>> = res.header.dataElementSeparator
                    THEN afterRecord + 1 ELSE afterRecord
    IN IF key.eof THEN Throw("EOF", io.pos, res)
       ELSE IF ~recordKeyPattern(key.s) THEN Throw("ParseError", io.pos, res)
       ELSE IF ends = {} THEN Throw("EOF", io.pos, res)
       ELSE ReturnSf(io.pos, res,
                     <<[f EXCEPT !.k = "maybeParseRecord",
                                 !.sf = StringIO(f.sf.data, afterSep),
                                 !.records = mapSet(@, key.s, val)]>>,
                     StringIO(f.sf.data, afterSep))

applyFunc(f, io, res) ==
    CASE f.k = "parseHeader" -> makeParseHeaderFunc(io, res)
      [] f.k = "marker" -> headerMarker(io, res)
      [] f.k = "dataElementSeparator" -> headerDataElementSeparator(io, res)
      [] f.k = "recordSeparator" -> headerRecordSeparator(io, res)
      [] f.k = "segmentTerminator" -> headerSegmentTerminator(io, res)
      [] f.k = "ansi" -> headerAnsi(io, res)
      [] f.k = "iin" -> headerIin(io, res)
      [] f.k = "aamvaVersion" -> headerAamvaVersion(io, res)
      [] f.k = "jurisdictionVersion" -> headerJurisdictionVersion(io, res)
      [] f.k = "numEntries" -> headerNumEntries(io, res)
      [] f.k = "parseSubfileDesignators" -> makeParseSubfileDesignatorsFunc(io, res)
      [] f.k = "parseSubfileDesignator" -> makeParseSubfileDesignatorFunc(io, res)
      [] f.k = "parseSubfiles" -> makeParseSubfilesFunc(io, res)
      [] f.k = "parseSubfile" -> parseSubfile(io, res, f.sd)
      [] f.k = "maybeParseRecord" -> maybeParseRecord(io, res, f)
      [] f.k = "parseRecord" -> parseRecord(io, res, f)

(***************************************************************************)
(* _Parser: the engine                                                     *)
(***************************************************************************)
initialFuncs ==
    <<Func("parseHeader"), Func("parseSubfileDesignators"), Func("parseSubfiles")>>

initialResult ==
    [header |-> [aamvaVersion |-> <<>>, dataElementSeparator |-> <<>>,
                 iin |-> <<>>, jurisdictionVersion |-> <<>>, numEntries |-> 0,
                 recordSeparator |-> <<>>, segmentTerminator |-> <<>>],
     subfileDesignators |-> <<>>,
     subfiles |-> <<>>]

Held(pos, fs, res) == [pos |-> pos, funcs |-> fs, result |-> res]

\* One turn of the loop of parse() that puts the follow-ups behind the
\* pending functions
runFuncAppendsAtEnd(data, s) ==
    CHOOSE t \in
        {IF r.out = "ok"
         THEN [out |-> "ok", pos |-> r.pos,
               funcs |-> Tail(s.funcs) \o r.next,
               result |-> r.result,
               before |-> Held(s.pos, s.funcs, s.result),
               done |-> Append(s.done,
                               [k |-> Head(s.funcs).k, at |-> s.pos, to |-> r.pos,
                                f |-> Head(s.funcs), sf |-> r.sf,
                                last |-> r.next = <<>>, next |-> r.next,
                                queue |-> Tail(s.funcs) \o r.next])]
         ELSE [s EXCEPT !.out = r.out, !.pos = r.pos,
                        !.before = Held(s.pos, s.funcs, s.result)]
           : r \in {applyFunc(Head(s.funcs), StringIO(data, s.pos), s.result)}} :
        TRUE

\* One turn of the loop of parse() that starts over from the beginning of
\* the buffer when a function throws
runFuncStartsOver(data, s) ==
    CHOOSE t \in
        {IF r.out = "ok"
         THEN [out |-> "ok", pos |-> r.pos,
               funcs |-> r.next \o Tail(s.funcs),
               result |-> r.result,
               before |-> Held(s.pos, s.funcs, s.result),
               done |-> Append(s.done,
                               [k |-> Head(s.funcs).k, at |-> s.pos, to |-> r.pos,
                                f |-> Head(s.funcs), sf |-> r.sf,
                                last |-> r.next = <<>>, next |-> r.next,
                                queue |-> r.next \o Tail(s.funcs)])]
         ELSE [s EXCEPT !.out = r.out, !.pos = 0,
                        !.funcs = <<Func("parseHeader"),
                                    Func("parseSubfileDesignators"),
                                    Func("parseSubfiles")>>,
                        !.before = Held(0, s.funcs, s.result)]
           : r \in {applyFunc(Head(s.funcs), StringIO(data, s.pos), s.result)}} :
        TRUE

\* One turn of the loop of parse() on the engine state s = [out, pos,
\* funcs, result, before, done]: a function that throws leaves funcs and
\* result as they are, and the cursor where the function left it.
runFunc(data, s) ==
    CHOOSE t \in
        {IF r.out = "ok"
         THEN [out |-> "ok", pos |-> r.pos,
               funcs |-> r.next \o Tail(s.funcs),
               result |-> r.result,
               before |-> Held(s.pos, s.funcs, s.result),
               done |-> Append(s.done,
                               [k |-> Head(s.funcs).k, at |-> s.pos, to |-> r.pos,
                                f |-> Head(s.funcs), sf |-> r.sf,
                                last |-> r.next = <<>>, next |-> r.next,
                                queue |-> r.next \o Tail(s.funcs)])]
         ELSE [s EXCEPT !.out = r.out, !.pos = r.pos,
                        !.before = Held(s.pos, s.funcs, s.result)]
           : r \in {applyFunc(Head(s.funcs), StringIO(data, s.pos), s.result)}} :
        TRUE

\* The loop of parse(): until funcs is empty or a function throws.
RECURSIVE runFuncs(_, _)
runFuncs(data, st) ==
    CHOOSE t \in
        {IF s.out # "ok" THEN s
         ELSE IF s.funcs = <<>> THEN [s EXCEPT !.out = "result"]
         ELSE runFuncs(data, runFunc(data, s)) : s \in {st}} :
        TRUE

parse(io, fs, res) ==
    runFuncs(io.data,
             [out |-> "ok", pos |-> io.pos, funcs |-> fs, result |-> res,
              before |-> Held(io.pos, fs, res), done |-> <<>>])

(***************************************************************************)
(* The scanned streams.  The base stream is a well-formed card with one DL *)
(* subfile, laid out like exampleData of the parser's tests with printable *)
(* separators; every other stream differs from it in at most MaxEdits of   *)
(* the places below.                                                       *)
(***************************************************************************)
MaxEdits == 1

Base ==
    [junk |-> 0, s1 |-> 0, s2 |-> 0, s3 |-> 0, ansi |-> 0, layout |-> 0,
     num |-> 0, off |-> 0, len |-> 0, body |-> 0, tail |-> 0]

Edits ==
    {<<"junk", 1>>,
     <<"s1", 1>>, <<"s1", 2>>, <<"s2", 1>>, <<"s3", 1>>,
     <<"ansi", 1>>,
     <<"layout", 1>>, <<"layout", 2>>, <<"layout", 3>>, <<"layout", 4>>,
     <<"layout", 5>>, <<"layout", 6>>,
     <<"num", 1>>, <<"num", 2>>, <<"num", 3>>, <<"num", 4>>,
     <<"off", 1>>, <<"off", 2>>,
     <<"len", 1>>, <<"len", 2>>, <<"len", 3>>, <<"len", 4>>, <<"len", 5>>,
     <<"body", 1>>, <<"body", 2>>, <<"body", 3>>, <<"body", 4>>,
     <<"body", 5>>, <<"body", 6>>, <<"body", 7>>, <<"body", 8>>,
     <<"body", 9>>, <<"body", 10>>, <<"body", 11>>,
     <<"tail", 1>>}

RECURSIVE Edited(_)
Edited(n) ==
    IF n = 0 THEN {Base}
    ELSE LET P == Edited(n - 1)
         IN P \cup {[c EXCEPT ![e[1]] = e[2]] : c \in P, e \in Edits}

Digits2(n) == <<DecDigits[((n \div 10) % 10) + 1], DecDigits[(n % 10) + 1]>>
Digits4(n) == Digits2(n \div 100) \o Digits2(n % 100)

HEADER_SIZE == 21

SubfileTypes(c) ==
    CASE c.layout = 0 -> << <<"D", "L">> >>
      [] c.layout = 1 -> << >>
      [] c.layout = 2 -> << <<"D", "L">>, <<"Z", "V">> >>
      [] c.layout = 3 -> << <<"Z", "V">>, <<"I", "D">> >>
      [] c.layout = 4 -> << <<"D", "L">>, <<"Z", "V">> >>
      [] c.layout = 5 -> << <<"D", "L">>, <<"D", "L">> >>
      [] c.layout = 6 -> << <<"Z", "V">>, <<"Z", "V">> >>

\* layouts 5 and 6 list two designators with the same type code;
\* layout 4 is layout 2 with a lower-case record key in the DL subfile
RecordsText(c) ==
    CASE c.layout = 4 -> <<"d", "A", "Q", "T", "$">>
      [] c.body = 0 -> <<"D", "A", "Q", "T", "$">>
      [] c.body = 1 -> <<"D", "A", "Q", "T", "|", "D", "C", "S", "S", "$">>
      [] c.body = 2 -> <<"D", "A", "Q", "T", "|", "$">>
      [] c.body = 3 -> <<"d", "A", "Q", "T", "$">>
      [] c.body = 4 -> <<"|", "D", "A", "Q", "T", "$">>
      [] c.body = 5 -> <<"D", "A", "Q", "T", "|", "D", "A", "Q", "$">>
      [] c.body = 6 -> <<"D", "A", "Q", "T", "|", "|", "D", "C", "S", "S", "$">>
      [] c.body = 7 -> <<"D", "A", "Q", "T", "|">>
      [] c.body = 8 -> <<"$">>
      [] c.body = 9 -> <<"|", "$">>
      [] c.body = 10 -> <<"D", "A", "Q", "T", "|", "|", "$">>
      [] c.body = 11 -> <<"D", "A", "Q", "T", "|", "D", "C", "S", "S", "|", "$">>

SubfileText(c, type) ==
    IF isDLID(type) THEN type \o RecordsText(c) ELSE type \o <<"A", "$">>

RECURSIVE SubfileOffset(_, _)
SubfileOffset(c, i) ==
    IF i = 1 THEN HEADER_SIZE + SUBFILE_DESIGNATOR_SIZE * Len(SubfileTypes(c))
    ELSE SubfileOffset(c, i - 1) + Len(SubfileText(c, SubfileTypes(c)[i - 1]))

\* len 5 declares the first range backwards: the offset lies two characters
\* behind the end of the subfile and the length is negative
OffsetText(c, i) ==
    LET d == Digits4(SubfileOffset(c, i))
    IN CASE i = 1 /\ c.off = 1 -> <<"Z", "Z", "Z", "Z">>
         [] i = 1 /\ c.off = 2 -> <<d[3], d[4], " ", " ">>
         [] i = 1 /\ c.len = 5 ->
               Digits4(SubfileOffset(c, i)
                          + Len(SubfileText(c, SubfileTypes(c)[i])) + 2)
         [] OTHER -> d

LengthText(c, i) ==
    LET n == Len(SubfileText(c, SubfileTypes(c)[i]))
    IN CASE i = 1 /\ c.len = 1 -> Digits4(n - 1)
         [] i = 1 /\ c.len = 2 -> Digits4(n + 2)
         [] i = 1 /\ c.len = 3 -> <<"Z", "0", "0", "9">>
         [] i = 1 /\ c.len = 4 -> <<"-", "0", "0", "5">>
         [] i = 1 /\ c.len = 5 -> <<"-">> \o Tail(Digits4(n + 2))
         [] OTHER -> Digits4(n)

NumEntriesText(c) ==
    CASE c.num = 0 -> Digits2(Len(SubfileTypes(c)))
      [] c.num = 1 -> <<"1", "Z">>
      [] c.num = 2 -> <<"Z", "Z">>
      [] c.num = 3 -> <<"-", "1">>
      [] c.num = 4 -> <<" ", "1">>

RECURSIVE Designators(_, _)
Designators(c, i) ==
    IF i > Len(SubfileTypes(c)) THEN <<>>
    ELSE SubfileTypes(c)[i] \o OffsetText(c, i) \o LengthText(c, i)
         \o Designators(c, i + 1)

RECURSIVE Subfiles(_, _)
Subfiles(c, i) ==
    IF i > Len(SubfileTypes(c)) THEN <<>>
    ELSE SubfileText(c, SubfileTypes(c)[i]) \o Subfiles(c, i + 1)

Stream(c) ==
    (IF c.junk = 1 THEN <<"X">> ELSE <<>>)
    \o <<"@">>
    \o (CASE c.s1 = 0 -> <<"|">> [] c.s1 = 1 -> <<"A">> [] c.s1 = 2 -> <<" ">>)
    \o (IF c.s2 = 0 THEN <<"^">> ELSE <<"7">>)
    \o (IF c.s3 = 0 THEN <<"$">> ELSE <<"z">>)
    \o (IF c.ansi = 0 THEN <<"A", "N", "S", "I", " ">>
                      ELSE <<"A", "N", "S", "X", " ">>)
    \o <<"6", "3", "6", "0", "0", "0">> \o <<"1", "1">> \o <<"0", "0">>
    \o NumEntriesText(c)
    \o Designators(c, 1)
    \o Subfiles(c, 1)
    \o (IF c.tail = 1 THEN <<"Z", "V">> ELSE <<>>)

\* a record list with a data-element separator directly before the segment
\* terminator, and the same list without that separator
ExtraSeparatorBodies == {<<2, 0>>, <<9, 8>>, <<10, 2>>, <<11, 1>>}

\* the cards in the format of exampleDataExtraSeparator: two subfiles, the
\* DL one with the extra separator
ExtraSeparatorCards ==
    {[Base EXCEPT !.layout = 2, !.body = b[1]] : b \in ExtraSeparatorBodies}

Cards == Edited(MaxEdits) \cup ExtraSeparatorCards

Streams == {Stream(c) : c \in Cards}

(***************************************************************************)
(* Specification: a scanner delivers a stream in chunks (StringIO.append)  *)
(* and the caller calls parse() whenever it likes.                         *)
(***************************************************************************)
NoErr == [out |-> "none", at |-> -1]

\* no append-driven parser in use
NoAppendParser ==
    /\ design = "none"
    /\ parser = Undefined
    /\ todo = <<>>
    /\ returned = "none"

NoCall ==
    [op |-> "none", n |-> 0, d |-> <<>>, eof |-> FALSE, ret |-> <<>>,
     was |-> NoReader]

\* no StringIO used on its own
NoStringIO ==
    /\ sio = NoReader
    /\ call = NoCall
    /\ prev = NoCall

\* no input handler in use
NoInput ==
    /\ input = Undefined
    /\ capture = Undefined
    /\ keys = <<>>

Init ==
    /\ NoAppendParser
    /\ NoStringIO
    /\ NoInput
    /\ pending \in Streams
    /\ reader = StringIO(<<>>, 0)
    /\ funcs = initialFuncs
    /\ result = initialResult
    /\ outcome = "none"
    /\ before = Held(0, initialFuncs, initialResult)
    /\ firstErr = NoErr
    /\ suspended = FALSE
    /\ log = <<>>

\* reader.append(chunk)
AppendCall ==
    \E n \in 1..Len(pending) :
        /\ design = "none"
        /\ reader' = append(reader, SubSeq(pending, 1, n))
        /\ pending' = SubSeq(pending, n + 1, Len(pending))
        /\ outcome' = "none"
        /\ before' = Held(reader.pos, funcs, result)
        /\ UNCHANGED <<funcs, result, firstErr, suspended, log>>
        /\ UNCHANGED <<appendVars, ioVars, inputVars>>

\* parser.parse()
ParseCall ==
    \E r \in {parse(reader, funcs, result)} :
       /\ design = "none"
       /\ reader' = [reader EXCEPT !.pos = r.pos]
       /\ funcs' = r.funcs
       /\ result' = r.result
       /\ outcome' = r.out
       /\ before' = r.before
       /\ firstErr' = IF firstErr = NoErr /\ instanceOf(r.out, "ParseError")
                      THEN [out |-> r.out, at |-> r.before.pos]
                      ELSE firstErr
       /\ suspended' = (suspended \/ r.out = "EOF")
       /\ log' = log \o r.done
       /\ UNCHANGED pending
       /\ UNCHANGED <<appendVars, ioVars, inputVars>>

Next == AppendCall \/ ParseCall

Spec == Init /\ [][Next]_vars

(***************************************************************************)
(* The append-driven parsers: the step list that mutates a shared result   *)
(* (parse.ts, mutable design) and the single-pass parser.  Both read       *)
(* through a StringReader, which is StringIO under another name, and share *)
(* parseSubfileDesignator, parseRecord and parseSubfile word for word.     *)
(* In both, EOF extends ParseError.                                        *)
(***************************************************************************)
\* parseSubfileDesignator(reader): [out, pos, sd]
mutParseSubfileDesignator(rd) ==
    LET p == peek(rd, SUBFILE_DESIGNATOR_SIZE)
        d == decodeDesignator(p.s)
    IN IF p.eof THEN [out |-> "EOF", pos |-> rd.pos, sd |-> NoSD]
       ELSE IF d.offset.nan \/ d.length.nan
       THEN [out |-> "ParseError", pos |-> rd.pos, sd |-> NoSD]
       ELSE [out |-> "ok", pos |-> rd.pos + SUBFILE_DESIGNATOR_SIZE,
             sd |-> [type |-> d.type, offset |-> d.offset.val,
                     length |-> d.length.val]]

\* parseRecord(header, reader): [out, pos, key, val]; pos is reader.pos
\* afterwards, at the delimiter that ended the value
mutParseRecord(header, rd) ==
    LET copied == StringIO(rd.data, rd.pos)
        key == read(copied, 3)
        isEnd(c) == <<c>> = header.dataElementSeparator
                    \/ <<c>> = header.segmentTerminator
        ends == {i \in (key.pos + 1)..Len(copied.data) : isEnd(copied.data[i])}
        endAt == MinOf(ends)
    IN IF key.eof THEN [out |-> "EOF", pos |-> rd.pos, key |-> <<>>, val |-> <<>>]
       ELSE IF ~recordKeyPattern(key.s)
       THEN [out |-> "ParseError", pos |-> rd.pos, key |-> <<>>, val |-> <<>>]
       ELSE IF ends = {}
       THEN [out |-> "EOF", pos |-> rd.pos, key |-> <<>>, val |-> <<>>]
       ELSE [out |-> "ok", pos |-> endAt - 1, key |-> key.s,
             val |-> SubSeq(copied.data, key.pos + 1, endAt - 1)]

\* the while (true) loop of parseSubfile on the subfile reader sf:
\* [out, records, pos]
RECURSIVE mutScanRecords(_, _, _)
mutScanRecords(header, sf, records) ==
    CHOOSE t \in UNION {
        {IF next.eof THEN [out |-> "EOF", records |-> recs, pos |-> s.pos]
         ELSE IF next.s = header.segmentTerminator
         THEN [out |-> "ok", records |-> recs, pos |-> s.pos + 1]
         ELSE IF next.s = header.dataElementSeparator
         THEN mutScanRecords(header, StringIO(s.data, s.pos + 1), recs)
         ELSE IF rec.out # "ok"
         THEN [out |-> rec.out, records |-> recs, pos |-> s.pos]
         ELSE mutScanRecords(header, StringIO(s.data, rec.pos),
                             mapSet(recs, rec.key, rec.val))
           : next \in {peek(s, 1)}, rec \in {mutParseRecord(header, s)}}
        : s \in {sf}, recs \in {records}} : TRUE

\* parseSubfile(header, subfileDesignator, reader): [out, records, pos]
mutParseSubfile(header, subfileDesignator, rd) ==
    LET copied == StringIO(rd.data, subfileDesignator.offset)
        p == peek(copied, subfileDesignator.length)
        sfReader == StringIO(p.s, 0)
        skip == read(sfReader, 2)
    IN IF p.eof \/ skip.eof THEN [out |-> "EOF", records |-> <<>>, pos |-> 0]
       ELSE mutScanRecords(header, StringIO(p.s, skip.pos), <<>>)

\* the subfile of another type: only its range is peeked
mutPeekRange(subfileDesignator, rd) ==
    peek(StringIO(rd.data, subfileDesignator.offset), subfileDesignator.length)

(***************************************************************************)
(* _Parser of the mutable design: its fields are reader, error, header,    *)
(* subfileDesignators, subfiles, done and steps.  A step applied to the    *)
(* parser p yields [out, p]: out is "ok" or the class thrown, p the parser *)
(* with what the step changed before it returned or threw.  ran records    *)
(* the steps that returned, in order, each with the step list it left.     *)
(***************************************************************************)
Step(k) == [k |-> k, sd |-> NoSD]

mutInitialSteps ==
    <<Step("marker"), Step("dataElementSeparator"), Step("recordSeparator"),
      Step("segmentTerminator"), Step("ansi"), Step("iin"),
      Step("aamvaVersion"), Step("jurisdictionVersion"), Step("numEntries"),
      Step("designators")>>

mutParser(initialData) ==
    [reader |-> StringIO(initialData, 0), error |-> "none",
     header |-> initialResult.header, subfileDesignators |-> <<>>,
     subfiles |-> <<>>, done |-> FALSE, steps |-> mutInitialSteps,
     ran |-> <<>>]

Stepped(out, p) == [out |-> out, p |-> p]

\* the header step storing field k: it reads n characters, checks them and
\* stores them
mutHeaderStep(p, k, n) ==
    LET r == read(p.reader, n)
        moved == [p EXCEPT !.reader.pos = r.pos]
        valid ==
            CASE k = "marker" -> r.s = <<"@">>
              [] k \in {"dataElementSeparator", "recordSeparator",
                        "segmentTerminator"} -> ~invalidSeparatorPattern(r.s[1])
              [] k = "ansi" -> r.s = <<"A", "N", "S", "I", " ">>
              [] k = "numEntries" -> ~parseInt(r.s).nan
              [] OTHER -> TRUE
        stored ==
            CASE k \in {"marker", "ansi"} -> moved
              [] k = "numEntries" ->
                   [moved EXCEPT !.header.numEntries = parseInt(r.s).val]
              [] OTHER -> [moved EXCEPT !.header[k] = r.s]
    IN IF r.eof THEN Stepped("EOF", p)
       ELSE IF ~valid THEN Stepped("ParseError", moved)
       ELSE Stepped("ok", stored)

mutStep(p) ==
    LET st == Head(p.steps)
    IN CASE st.k \in {"marker", "dataElementSeparator", "recordSeparator",
                      "segmentTerminator"} -> mutHeaderStep(p, st.k, 1)
         [] st.k = "ansi" -> mutHeaderStep(p, st.k, 5)
         [] st.k = "iin" -> mutHeaderStep(p, st.k, 6)
         [] st.k \in {"aamvaVersion", "jurisdictionVersion", "numEntries"} ->
              mutHeaderStep(p, st.k, 2)
         [] st.k = "designators" ->
              Stepped("ok",
                  [p EXCEPT !.steps =
                      @ \o [i \in 1..(IF p.header.numEntries > 0
                                      THEN p.header.numEntries ELSE 0) |->
                               Step("designator")]])
         [] st.k = "designator" ->
              CHOOSE t \in
                  {IF sd.out # "ok" THEN Stepped(sd.out, p)
                   ELSE Stepped("ok",
                           [p EXCEPT !.reader.pos = sd.pos,
                                     !.subfileDesignators = Append(@, sd.sd),
                                     !.steps = Append(@, [k |-> "subfile",
                                                          sd |-> sd.sd])])
                     : sd \in {mutParseSubfileDesignator(p.reader)}} : TRUE
         [] st.k = "subfile" ->
              IF isDLID(st.sd.type)
              THEN CHOOSE t \in
                      {IF sf.out # "ok" THEN Stepped(sf.out, p)
                       ELSE Stepped("ok",
                               [p EXCEPT !.subfiles =
                                            mapSet(@, st.sd.type, sf.records)])
                         : sf \in {mutParseSubfile(p.header, st.sd, p.reader)}} :
                      TRUE
              ELSE IF mutPeekRange(st.sd, p.reader).eof THEN Stepped("EOF", p)
                   ELSE Stepped("ok",
                           [p EXCEPT !.subfiles = mapSet(@, st.sd.type, <<>>)])

\* updateParseOnce(): [out, p]
mutUpdateParseOnce(p) ==
    IF p.steps # <<>>
    THEN CHOOSE t \in
             {IF r.out = "ok"
              THEN Stepped("ok",
                      [r.p EXCEPT !.steps = Tail(@),
                                  !.ran = Append(@, [k |-> Head(p.steps).k,
                                                     sd |-> Head(p.steps).sd,
                                                     steps |-> Tail(r.p.steps)])])
              ELSE r : r \in {mutStep(p)}} : TRUE
    ELSE Stepped("ok", [p EXCEPT !.done = TRUE])

\* the catch block returning true for every exception
RECURSIVE mutUpdateLoopAlwaysWaits(_)
mutUpdateLoopAlwaysWaits(p) ==
    IF p.done \/ p.error # "none" THEN [ret |-> FALSE, p |-> p]
    ELSE CHOOSE t \in
            {IF r.out = "ok" THEN mutUpdateLoopAlwaysWaits(r.p)
             ELSE IF instanceOf(r.out, "EOF") THEN [ret |-> TRUE, p |-> r.p]
             ELSE [ret |-> TRUE, p |-> [r.p EXCEPT !.error = r.out]]
               : r \in {mutUpdateParseOnce(p)}} : TRUE

\* the try block of updateParse(): [ret, p]
RECURSIVE mutUpdateLoop(_)
mutUpdateLoop(p) ==
    IF p.done \/ p.error # "none" THEN [ret |-> FALSE, p |-> p]
    ELSE CHOOSE t \in
            {IF r.out = "ok" THEN mutUpdateLoop(r.p)
             ELSE IF instanceOf(r.out, "EOF") THEN [ret |-> TRUE, p |-> r.p]
             ELSE [ret |-> FALSE, p |-> [r.p EXCEPT !.error = r.out]]
               : r \in {mutUpdateParseOnce(p)}} : TRUE

mutUpdateParse(p) ==
    IF p.error # "none" THEN [ret |-> FALSE, p |-> p] ELSE mutUpdateLoop(p)

\* append(data) that adds the data to the buffer before it looks at done
\* and error
mutAppendKeepsData(p, data) ==
    IF p.error # "none" \/ p.done
    THEN [ret |-> FALSE, p |-> [p EXCEPT !.reader = append(@, data)]]
    ELSE mutUpdateParse([p EXCEPT !.reader = append(@, data)])

\* append(data): [ret, p]
mutAppend(p, data) ==
    IF p.error # "none" \/ p.done THEN [ret |-> FALSE, p |-> p]
    ELSE mutUpdateParse([p EXCEPT !.reader = append(@, data)])

(***************************************************************************)
(* _Parser of the single-pass design: its fields are reader, error,        *)
(* header (undefined until parsed), subfileDesignators, subfiles,          *)
(* nSubfiles and done.                                                     *)
(***************************************************************************)
\* badHeaderPattern = /[a-zA-Z0-9]/ tested on one character
badHeaderPattern(c) == c \in UpperCase \cup LowerCase \cup Digit

\* parseHeader(reader): [out, pos, header]
spParseHeader(rd) ==
    LET check == peek(rd, 2)
        whole == peek(rd, HEADER_SIZE)
        h == whole.s
        numEntries == parseInt(SubSeq(h, 20, 21))
    IN IF check.eof THEN [out |-> "EOF", pos |-> rd.pos, header |-> Undefined]
       ELSE IF check.s[1] # "@" \/ badHeaderPattern(check.s[2])
       THEN [out |-> "ParseError", pos |-> rd.pos, header |-> Undefined]
       ELSE IF whole.eof THEN [out |-> "EOF", pos |-> rd.pos, header |-> Undefined]
       ELSE IF SubSeq(h, 5, 9) # <<"A", "N", "S", "I", " ">>
       THEN [out |-> "ParseError", pos |-> rd.pos, header |-> Undefined]
       ELSE IF numEntries.nan
       THEN [out |-> "ParseError", pos |-> rd.pos, header |-> Undefined]
       ELSE [out |-> "ok", pos |-> rd.pos + HEADER_SIZE,
             header |-> [dataElementSeparator |-> SubSeq(h, 2, 2),
                         recordSeparator |-> SubSeq(h, 3, 3),
                         segmentTerminator |-> SubSeq(h, 4, 4),
                         iin |-> SubSeq(h, 10, 15),
                         aamvaVersion |-> SubSeq(h, 16, 17),
                         jurisdictionVersion |-> SubSeq(h, 18, 19),
                         numEntries |-> numEntries.val]]

spParser(initialData) ==
    [reader |-> StringIO(initialData, 0), error |-> "none",
     header |-> Undefined, subfileDesignators |-> <<>>, subfiles |-> <<>>,
     nSubfiles |-> 0, done |-> FALSE]

\* the for loop of updateParseOnce over subfileDesignators, from the i-th
RECURSIVE spParseSubfiles(_, _)
spParseSubfiles(p, i) ==
    CHOOSE t \in
        {IF i > Len(q.subfileDesignators) THEN Stepped("ok", q)
         ELSE LET sd == q.subfileDesignators[i]
              IN IF mapHas(q.subfiles, sd.type) THEN spParseSubfiles(q, i + 1)
                 ELSE IF isDLID(sd.type)
                 THEN CHOOSE u \in
                        {IF sf.out # "ok" THEN Stepped(sf.out, q)
                         ELSE spParseSubfiles(
                                [q EXCEPT !.subfiles =
                                              mapSet(@, sd.type, sf.records),
                                          !.nSubfiles = @ + 1], i + 1)
                           : sf \in {mutParseSubfile(q.header, sd, q.reader)}} :
                        TRUE
                 ELSE IF mutPeekRange(sd, q.reader).eof THEN Stepped("EOF", q)
                 ELSE spParseSubfiles(
                         [q EXCEPT !.subfiles = mapSet(@, sd.type, <<>>),
                                   !.nSubfiles = @ + 1], i + 1)
           : q \in {p}} : TRUE

\* updateParseOnce(): [out, p, cont]; cont is the value returned
spUpdateParseOnce(p) ==
    IF p.header = Undefined
    THEN CHOOSE t \in
            {IF h.out # "ok" THEN [out |-> h.out, p |-> p, cont |-> FALSE]
             ELSE [out |-> "ok", cont |-> TRUE,
                   p |-> [p EXCEPT !.header = h.header, !.reader.pos = h.pos]]
               : h \in {spParseHeader(p.reader)}} : TRUE
    ELSE IF Len(p.subfileDesignators) < p.header.numEntries
    THEN CHOOSE t \in
            {IF sd.out # "ok" THEN [out |-> sd.out, p |-> p, cont |-> FALSE]
             ELSE [out |-> "ok", cont |-> TRUE,
                   p |-> [p EXCEPT !.reader.pos = sd.pos,
                                   !.subfileDesignators = Append(@, sd.sd)]]
               : sd \in {mutParseSubfileDesignator(p.reader)}} : TRUE
    ELSE IF p.nSubfiles < Len(p.subfileDesignators)
    THEN CHOOSE t \in
            {[out |-> sfs.out, p |-> sfs.p, cont |-> sfs.out = "ok"]
               : sfs \in {spParseSubfiles(p, 1)}} : TRUE
    ELSE [out |-> "ok", p |-> [p EXCEPT !.done = TRUE], cont |-> FALSE]

\* the try block of updateParse(): [ret, p, hangs]; the loop hangs when a
\* turn returns true and has changed nothing
RECURSIVE spUpdateLoop(_)
spUpdateLoop(p) ==
    CHOOSE t \in
        {IF r.out = "ok"
         THEN IF ~r.cont THEN [ret |-> FALSE, p |-> r.p, hangs |-> FALSE]
              ELSE IF r.p = p THEN [ret |-> FALSE, p |-> r.p, hangs |-> TRUE]
              ELSE spUpdateLoop(r.p)
         ELSE IF instanceOf(r.out, "EOF")
         THEN [ret |-> TRUE, p |-> r.p, hangs |-> FALSE]
         ELSE [ret |-> FALSE, p |-> [r.p EXCEPT !.error = r.out], hangs |-> FALSE]
           : r \in {spUpdateParseOnce(p)}} : TRUE

spUpdateParse(p) ==
    IF p.error # "none" THEN [ret |-> FALSE, p |-> p, hangs |-> FALSE]
    ELSE spUpdateLoop(p)

\* append(data): [ret, p, hangs]
spAppend(p, data) ==
    IF p.error # "none" \/ p.done THEN [ret |-> FALSE, p |-> p, hangs |-> FALSE]
    ELSE spUpdateParse([p EXCEPT !.reader = append(@, data)])

(***************************************************************************)
(* Specification of the append-driven parsers: one of the two is made over *)
(* nothing or over the first character of a stream (the input handler      *)
(* makes it over "@"), and the rest of the stream is fed to append in      *)
(* chunks, empty ones included.                                            *)
(***************************************************************************)
\* no step-queue parser in use
NoParseParser ==
    /\ reader = NoReader
    /\ funcs = <<>>
    /\ result = initialResult
    /\ pending = <<>>
    /\ outcome = "none"
    /\ before = Held(0, <<>>, initialResult)
    /\ firstErr = NoErr
    /\ suspended = FALSE
    /\ log = <<>>

InitAppend ==
    /\ NoParseParser
    /\ NoStringIO
    /\ NoInput
    /\ returned = "none"
    /\ \E stream \in Streams, n \in 0..1 :
          /\ todo = SubSeq(stream, n + 1, Len(stream))
          /\ \/ design = "steps" /\ parser = mutParser(SubSeq(stream, 1, n))
             \/ design = "single" /\ parser = spParser(SubSeq(stream, 1, n))

BoolText(b) == IF b THEN "true" ELSE "false"

\* parser.append(chunk) on the mutable design
MutAppendCall ==
    /\ design = "steps"
    /\ \E n \in 0..Len(todo) :
          \E r \in {mutAppend(parser, SubSeq(todo, 1, n))} :
             /\ parser' = r.p
             /\ returned' = BoolText(r.ret)
             /\ todo' = SubSeq(todo, n + 1, Len(todo))
    /\ UNCHANGED <<design, parseVars, ioVars, inputVars>>

\* parser.append(chunk) on the single-pass design
SpAppendCall ==
    /\ design = "single"
    /\ returned # "never"
    /\ \E n \in 0..Len(todo) :
          \E r \in {spAppend(parser, SubSeq(todo, 1, n))} :
             /\ parser' = r.p
             /\ returned' = IF r.hangs THEN "never" ELSE BoolText(r.ret)
             /\ todo' = SubSeq(todo, n + 1, Len(todo))
    /\ UNCHANGED <<design, parseVars, ioVars, inputVars>>

NextAppend == MutAppendCall \/ SpAppendCall

SpecAppend == InitAppend /\ [][NextAppend]_vars

(***************************************************************************)
(* Specification of all three parsers: a run uses one of them.             *)
(***************************************************************************)
InitBoth == Init \/ InitAppend

NextBoth == Next \/ NextAppend

SpecBoth == InitBoth /\ [][NextBoth]_vars

(***************************************************************************)
(* Specification of StringIO on its own.  The parsers make readers at the  *)
(* cursor 0 and, in parseSubfile, at the offset a designator gives, and    *)
(* peek the length it gives: both are parseInt results, so the cursor may  *)
(* lie past the end of the data or before its start, and the length peeked *)
(* may be negative.  read is called with fixed positive widths and with    *)
(* the length of a record.                                                 *)
(***************************************************************************)
MaxData == 3
MaxArg == 3

Alphabet == {"a", "b"}

RECURSIVE Strings(_)
Strings(n) ==
    IF n = 0 THEN {<<>>}
    ELSE Strings(n - 1)
         \cup {Append(t, c) : t \in {t \in Strings(n - 1) : Len(t) = n - 1},
                              c \in Alphabet}

InitIO ==
    /\ NoParseParser
    /\ NoAppendParser
    /\ NoInput
    /\ call = NoCall
    /\ prev = NoCall
    /\ \E data \in Strings(MaxData - 1), pos \in -1..MaxData :
          sio = StringIO(data, pos)

\* sio.peek(n)
PeekCall ==
    /\ \E n \in -1..MaxArg :
          \E r \in {peek(sio, n)} :
             call' = [op |-> "peek", n |-> n, d |-> <<>>, eof |-> r.eof,
                      ret |-> r.s, was |-> sio]
    /\ prev' = call
    /\ UNCHANGED <<sio, parseVars, appendVars, inputVars>>

\* sio.read(n)
ReadCall ==
    /\ \E n \in 0..MaxArg :
          \E r \in {read(sio, n)} :
             /\ sio' = [sio EXCEPT !.pos = r.pos]
             /\ call' = [op |-> "read", n |-> n, d |-> <<>>, eof |-> r.eof,
                         ret |-> r.s, was |-> sio]
    /\ prev' = call
    /\ UNCHANGED <<parseVars, appendVars, inputVars>>

\* sio.append(d)
IOAppendCall ==
    /\ \E d \in Strings(2) :
          /\ Len(sio.data) + Len(d) <= MaxData
          /\ sio' = append(sio, d)
          /\ call' = [op |-> "append", n |-> 0, d |-> d, eof |-> FALSE,
                      ret |-> <<>>, was |-> sio]
    /\ prev' = call
    /\ UNCHANGED <<parseVars, appendVars, inputVars>>

NextIO == PeekCall \/ ReadCall \/ IOAppendCall

SpecIO == InitIO /\ [][NextIO]_vars

(***************************************************************************)
(* The input handler _Input: it keeps the visible value, starts a capture  *)
(* when the value comes to end in "@", feeds what is typed during the      *)
(* capture to the step-queue parser and abandons the capture on a timeout. *)
(* The timer is modelled by whether a timeout is pending.                  *)
(***************************************************************************)
\* makeDLIDParser(reader): a parser with the three initial functions; the
\* reader stays a field of the handler
makeDLIDParser == [funcs |-> initialFuncs, result |-> initialResult]

\* new _Input(initialData)
Input(initialData) ==
    [reader |-> StringIO(<<>>, 0),
     parser |-> makeDLIDParser,
     state |-> [isCapturing |-> FALSE, isParsingDLID |-> FALSE,
                value |-> initialData, result |-> Undefined],
     timeout |-> FALSE]

\* resetTimeout() that clears the timer and sets none
resetTimeoutClearsOnly(o) == [o EXCEPT !.timeout = FALSE]

resetTimeout(o) == [o EXCEPT !.timeout = TRUE]

startCapturing(o) ==
    [resetTimeout([o EXCEPT !.reader = append(@, <<"@">>)])
        EXCEPT !.state.isCapturing = TRUE]

\* cancelCapturing() that leaves out the "@" the capture started with and
\* the first character typed after it
cancelCapturingDropsOne(o) ==
    IF o.state.isCapturing
    THEN [o EXCEPT !.timeout = FALSE,
                   !.reader = StringIO(<<>>, 0),
                   !.parser = makeDLIDParser,
                   !.state = [isCapturing |-> FALSE, isParsingDLID |-> FALSE,
                              value |-> o.state.value
                                  \o substring(o.reader.data, 2,
                                               Len(o.reader.data)),
                              result |-> Undefined]]
    ELSE [o EXCEPT !.timeout = FALSE]

cancelCapturing(o) ==
    IF o.state.isCapturing
    THEN [o EXCEPT !.timeout = FALSE,
                   !.reader = StringIO(<<>>, 0),
                   !.parser = makeDLIDParser,
                   !.state = [isCapturing |-> FALSE, isParsingDLID |-> FALSE,
                              value |-> o.state.value
                                  \o substring(o.reader.data, 1,
                                               Len(o.reader.data)),
                              result |-> Undefined]]
    ELSE [o EXCEPT !.timeout = FALSE]

\* completeCapturing() that keeps the reader it was capturing with
completeCapturingKeepsReader(o, res) ==
    [o EXCEPT !.timeout = FALSE,
              !.parser = makeDLIDParser,
              !.state.isCapturing = FALSE,
              !.state.isParsingDLID = FALSE,
              !.state.result = res]

completeCapturing(o, res) ==
    [o EXCEPT !.timeout = FALSE,
              !.reader = StringIO(<<>>, 0),
              !.parser = makeDLIDParser,
              !.state.isCapturing = FALSE,
              !.state.isParsingDLID = FALSE,
              !.state.result = res]

handleTimeout(o) == cancelCapturing([o EXCEPT !.timeout = FALSE])

\* the catch block of append: what the handler does with what parse() threw
inputCatch(o, cls) ==
    CASE cls = "EOF" ->
           [resetTimeout(o) EXCEPT
               !.state.isParsingDLID = @ \/ Len(o.reader.data) >= 4]
      [] instanceOf(cls, "HeaderParseError") -> cancelCapturing(o)
      [] OTHER -> resetTimeout(o)

\* append(value): the handler afterwards (o) and what parse() did (out,
\* "none" when the handler was not capturing)
inputAppend(o, value) ==
    IF o.state.isCapturing
    THEN CHOOSE t \in
             {[out |-> r.out,
               o |-> LET ran == [o EXCEPT
                                   !.reader = StringIO(o.reader.data \o value,
                                                       r.pos),
                                   !.parser = [funcs |-> r.funcs,
                                               result |-> r.result]]
                     IN IF r.out = "result"
                        THEN completeCapturing(ran, r.result)
                        ELSE inputCatch(ran, r.out)]
                : r \in {parse(append(o.reader, value), o.parser.funcs,
                               o.parser.result)}} :
             TRUE
    ELSE LET newVal == o.state.value \o value
             shown == [o EXCEPT !.state.value = newVal]
         IN [out |-> "none",
             o |-> IF Len(newVal) > 0 /\ newVal[Len(newVal)] = "@"
                   THEN startCapturing(shown)
                   ELSE shown]

startsWith(s, prefix) ==
    Len(prefix) <= Len(s) /\ SubSeq(s, 1, Len(prefix)) = prefix

setValue(o, v) ==
    IF startsWith(v, o.state.value)
    THEN inputAppend(o, substring(v, Len(o.state.value), Len(v)))
    ELSE inputAppend([o EXCEPT !.state.value = <<>>], v)

(***************************************************************************)
(* Specification: keys are typed into the handler in chunks (append), the  *)
(* field's value is set from outside (setValue) and a pending timeout may  *)
(* fire between any two calls.                                             *)
(***************************************************************************)
MaxSetValue == 1

\* what the field holds at construction
InitialData == {<<>>, <<"x">>}

\* the cards typed: the well-formed one, the one whose entry count is not a
\* number, and three without subfiles: a well-formed one, one after a stray
\* key and one with a forbidden separator
NoSubfiles == [Base EXCEPT !.layout = 1]

InputCards ==
    {Base, [Base EXCEPT !.num = 2], NoSubfiles,
     [NoSubfiles EXCEPT !.junk = 1], [NoSubfiles EXCEPT !.s1 = 1]}

NoCapture ==
    [startValue |-> <<>>, fed |-> <<>>, ended |-> "none", failed |-> FALSE,
     replaced |-> FALSE, last |-> "none", sets |-> 0]

\* the record of the capture after a call that fed typed to the handler o
\* and left r; replaces when the call emptied the value first
Track(c, o, r, typed, replaces) ==
    IF o.state.isCapturing
    THEN [c EXCEPT !.fed = @ \o typed,
                   !.last = r.out,
                   !.failed = @ \/ r.out = "ParseError",
                   !.replaced = @ \/ replaces,
                   !.ended = IF r.o.state.isCapturing THEN "none" ELSE r.out]
    ELSE IF r.o.state.isCapturing
    THEN [NoCapture EXCEPT !.startValue = r.o.state.value, !.sets = c.sets]
    ELSE [NoCapture EXCEPT !.sets = c.sets]

InitInput ==
    /\ NoParseParser
    /\ NoAppendParser
    /\ NoStringIO
    /\ input \in {Input(d) : d \in InitialData}
    /\ capture = NoCapture
    /\ keys \in {Stream(c) : c \in InputCards}

\* what one call brings: nothing, the next key, or all the rest (a paste)
Chunks(ks) == {n \in {0, 1, Len(ks)} : n <= Len(ks)}

\* input.append(chunk)
InputAppendCall ==
    /\ \E n \in Chunks(keys) :
          \E r \in {inputAppend(input, SubSeq(keys, 1, n))} :
             /\ input' = r.o
             /\ capture' = Track(capture, input, r, SubSeq(keys, 1, n), FALSE)
             /\ keys' = SubSeq(keys, n + 1, Len(keys))
    /\ UNCHANGED <<parseVars, appendVars, ioVars>>

\* the values set from outside: the field emptied, overwritten, or extended
SetValues(o) ==
    {<<>>, <<"q", "@">>, o.state.value \o <<"q">>}

\* input.setValue(v)
SetValueCall ==
    /\ capture.sets < MaxSetValue
    /\ \E v \in SetValues(input) :
          \E r \in {setValue(input, v)} :
             /\ input' = r.o
             /\ capture' =
                  [Track(capture, input, r,
                         IF startsWith(v, input.state.value)
                         THEN SubSeq(v, Len(input.state.value) + 1, Len(v))
                         ELSE v,
                         ~startsWith(v, input.state.value))
                     EXCEPT !.sets = capture.sets + 1]
    /\ UNCHANGED <<keys, parseVars, appendVars, ioVars>>

\* the pending timeout fires: handleTimeout()
TimeoutFires ==
    /\ input.timeout
    /\ input' = handleTimeout(input)
    /\ capture' = [capture EXCEPT !.ended = "timeout", !.last = "none"]
    /\ UNCHANGED <<keys, parseVars, appendVars, ioVars>>

NextInput == InputAppendCall \/ SetValueCall \/ TimeoutFires

SpecInput == InitInput /\ [][NextInput]_vars

\* The same with a timer that keeps its word: a timeout set by
\* window.setTimeout and not cleared fires in the end.  Every call that
\* leaves a capture open sets the timeout anew.
SpecInputFair == SpecInput /\ WF_vars(TimeoutFires)

(***************************************************************************)
(* The legacy input handler InputState: it makes an append-driven parser   *)
(* over "@" when the field's value comes to end in "@", feeds it what the  *)
(* change and key events bring, and gives up on a timeout.                 *)
(***************************************************************************)
\* new InputState(value)
InputState(value) ==
    [state |-> [value |-> value, isCapturingInput |-> FALSE,
                isInputtingDLID |-> FALSE, result |-> Undefined],
     parser |-> Undefined,
     altBuffer |-> <<>>,
     timeout |-> FALSE]

\* makeDLIDParser(initialData) of the parse.js in use
legacyParser(d, initialData) ==
    IF d = "steps" THEN mutParser(initialData) ELSE spParser(initialData)

\* parser.append(data): [ret, p, hangs]
legacyParserAppend(d, p, data) ==
    IF d = "steps"
    THEN CHOOSE t \in {[ret |-> r.ret, p |-> r.p, hangs |-> FALSE]
                          : r \in {mutAppend(p, data)}} : TRUE
    ELSE spAppend(p, data)

\* inputPattern.test(data): /^@[^a-zA-Z0-9. -]{3}ANSI /
inputPattern(data) ==
    /\ Len(data) >= 9
    /\ data[1] = "@"
    /\ \A i \in 2..4 :
          data[i] \notin LowerCase \cup UpperCase \cup Digit \cup {".", " ", "-"}
    /\ SubSeq(data, 5, 9) = <<"A", "N", "S", "I", " ">>

\* clearTimeout, then setTimeout(onTimeout, 150) when capturing
legacyResetTimeout(o) == [o EXCEPT !.timeout = o.state.isCapturingInput]

ParserResult(p) ==
    [header |-> p.header, subfileDesignators |-> p.subfileDesignators,
     subfiles |-> p.subfiles]

\* what a handler leaves: the object, how the parser took what it was fed
\* ("none" when nothing was fed, "hang" when parser.append does not return,
\* "done", "error" when the capture was given up early, or "fed") and the
\* characters passed to parser.append
Handled(o, how, fed) == [o |-> o, how |-> how, fed |-> fed]

\* append(data)
legacyAppend(d, o, data) ==
    IF o.parser = Undefined THEN Handled(o, "none", <<>>)
    ELSE CHOOSE t \in
        {IF r.hangs THEN Handled([o EXCEPT !.parser = r.p], "hang", data)
         ELSE IF r.p.done /\ r.p.header # Undefined
         THEN Handled([o EXCEPT !.state.value = <<>>,
                                !.state.isCapturingInput = FALSE,
                                !.state.isInputtingDLID = FALSE,
                                !.state.result = ParserResult(r.p),
                                !.parser = Undefined], "done", data)
         ELSE IF ~o.state.isInputtingDLID /\ r.p.error # "none"
         THEN Handled(legacyResetTimeout(
                        [o EXCEPT !.state.value = r.p.reader.data,
                                  !.state.isInputtingDLID = FALSE,
                                  !.state.isCapturingInput = FALSE,
                                  !.parser = Undefined]), "error", data)
         ELSE IF /\ ~o.state.isInputtingDLID
                 /\ r.p.reader.data # <<>>
                 /\ inputPattern(r.p.reader.data)
         THEN Handled([o EXCEPT !.state.isInputtingDLID = TRUE,
                                !.parser = r.p], "fed", data)
         ELSE Handled([o EXCEPT !.parser = r.p], "fed", data)
            : r \in {legacyParserAppend(d, o.parser, data)}} : TRUE

\* onChange(e) with e.target.value = value
onChange(d, o, value) ==
    IF o.state.isCapturingInput /\ o.parser # Undefined
    THEN IF startsWith(value, o.state.value)
         THEN CHOOSE t \in
                 {IF r.how = "hang" THEN r
                  ELSE Handled(legacyResetTimeout(r.o), r.how, r.fed)
                     : r \in {legacyAppend(d, o,
                                  substring(value, Len(o.state.value),
                                            Len(value)))}} : TRUE
         ELSE Handled(legacyResetTimeout(o), "none", <<>>)
    ELSE LET starts == Len(value) > 0 /\ value[Len(value)] = "@"
         IN Handled(legacyResetTimeout(
                      [o EXCEPT !.parser = IF starts
                                           THEN legacyParser(d, <<"@">>)
                                           ELSE @,
                                !.state.isCapturingInput = @ \/ starts,
                                !.state.value = value]), "none", <<>>)

\* String.fromCharCode(num) for the codes typed
CharCodes ==
    << <<3, "\\x03">>, <<6, "\\x06">>, <<36, "$">>, <<64, "@">> >>

fromCharCode(num) ==
    CharCodes[CHOOSE i \in 1..Len(CharCodes) : CharCodes[i][1] = num][2]

\* parseInt(string, 10) of a string of decimal digits
parseIntDecimal(s) ==
    IF s = <<>> \/ ~isRadixDigit(s[1], 10) THEN NaN
    ELSE [nan |-> FALSE, val |-> toNumber(s, 1, Len(s), 10, 0)]

\* finishAlt()
finishAlt(d, o) ==
    LET num == parseIntDecimal(o.altBuffer)
        emptied == [o EXCEPT !.altBuffer = <<>>]
    IN IF ~num.nan THEN legacyAppend(d, emptied, <<fromCharCode(num.val)>>)
       ELSE Handled(emptied, "none", <<>>)

NUMS == DecDigits

\* String.prototype.includes: sub occurs in s as a substring
includes(s, sub) ==
    \E i \in 0..(Len(s) - Len(sub)) : SubSeq(s, i + 1, i + Len(sub)) = sub

\* a keyboard event: the key (a string: one character or a key name) and
\* the state of the Alt and Control modifiers
KeyboardEvent(key, alt, ctrl) == [key |-> key, alt |-> alt, ctrl |-> ctrl]

KeyAlt == <<"A", "l", "t">>
KeyEnter == <<"E", "n", "t", "e", "r">>

\* getSpecialChar(e): the character, or <<>> for undefined
getSpecialChar(e) ==
    IF e.key = <<"j">> /\ e.ctrl THEN <<"\n">>
    ELSE IF (e.key = <<"6">> \/ e.key = <<"^">>) /\ e.ctrl THEN <<"\\x1e">>
    ELSE IF e.key = KeyEnter THEN <<"\r">>
    ELSE <<>>

\* two calls of append in one handler: the second one acts on what the
\* first one left, unless that one never returned
Then(first, second) ==
    IF first.how = "hang" THEN first
    ELSE Handled(second.o,
                 IF second.how = "none" THEN first.how ELSE second.how,
                 first.fed \o second.fed)

\* onKeyDown(e)
onKeyDown(d, o, e) ==
    IF o.state.isCapturingInput
    THEN LET armed == legacyResetTimeout(o)
         IN IF e.key = KeyAlt THEN Handled(armed, "none", <<>>)
            ELSE IF e.alt /\ includes(NUMS, e.key)
            THEN Handled([armed EXCEPT !.altBuffer = @ \o e.key],
                         "none", <<>>)
            ELSE CHOOSE t \in UNION
                    {{Then(a, b)
                        : b \in {IF getSpecialChar(e) # <<>> /\ a.how # "hang"
                                 THEN legacyAppend(d, a.o, getSpecialChar(e))
                                 ELSE Handled(a.o, "none", <<>>)}}
                        : a \in {IF ~e.alt /\ Len(armed.altBuffer) > 0
                                 THEN finishAlt(d, armed)
                                 ELSE Handled(armed, "none", <<>>)}} : TRUE
    ELSE Handled(o, "none", <<>>)

\* onKeyUp(e)
onKeyUp(d, o, e) ==
    IF o.state.isCapturingInput /\ e.key = KeyAlt /\ Len(o.altBuffer) > 0
    THEN finishAlt(d, o)
    ELSE Handled(o, "none", <<>>)

\* onTimeout()
onTimeout(o) ==
    IF o.state.isCapturingInput
    THEN LET completed == /\ o.parser # Undefined
                          /\ o.parser.done
                          /\ o.parser.header # Undefined
         IN [o EXCEPT !.parser = Undefined,
                      !.timeout = FALSE,
                      !.state.value =
                          IF o.parser = Undefined THEN @
                          ELSE IF completed THEN <<>>
                          ELSE @ \o substring(o.parser.reader.data, 1,
                                              Len(o.parser.reader.data)),
                      !.state.isCapturingInput = FALSE,
                      !.state.isInputtingDLID = FALSE,
                      !.state.result = IF completed THEN ParserResult(o.parser)
                                       ELSE @]
    ELSE [o EXCEPT !.timeout = FALSE]

(***************************************************************************)
(* Specification: a card is typed into the field of the legacy handler.    *)
(* A printable key arrives as a key event followed by a change event that  *)
(* extends the value (a paste extends it by all that is printable), "$"    *)
(* and "@" may also be typed as Alt codes while a capture runs, the card   *)
(* ends with Enter and Control+j, after which characters may be deleted,   *)
(* and the timeout may fire between any two events.                        *)
(***************************************************************************)
LegacyCards ==
    {NoSubfiles, [NoSubfiles EXCEPT !.s1 = 1],
     [NoSubfiles EXCEPT !.junk = 1, !.s1 = 1], [Base EXCEPT !.num = 2]}

AltCodes == << <<"$", <<"3", "6">> >>, <<"@", <<"6", "4">> >> >>

HasAltCode(c) == \E i \in 1..Len(AltCodes) : AltCodes[i][1] = c

AltCode(c) == AltCodes[CHOOSE i \in 1..Len(AltCodes) : AltCodes[i][1] = c][2]

\* the keys that reach the field only as key events
SpecialKeys == {"\r", "\n"}

\* how many of the next keys are printable
RECURSIVE Printable(_)
Printable(ks) ==
    IF ks = <<>> \/ Head(ks) \in SpecialKeys THEN 0
    ELSE 1 + Printable(Tail(ks))

\* the record of the capture after a handler that found o and left r
LegacyTrack(c, o, r) ==
    IF o.state.isCapturingInput
    THEN [c EXCEPT !.fed = @ \o r.fed,
                   !.last = r.how,
                   !.ended = IF r.o.state.isCapturingInput THEN "none"
                             ELSE r.how]
    ELSE IF r.o.state.isCapturingInput
    THEN [NoCapture EXCEPT !.startValue = r.o.state.value]
    ELSE NoCapture

InitLegacy ==
    /\ NoParseParser
    /\ NoStringIO
    /\ design \in {"steps", "single"}
    /\ parser = Undefined
    /\ todo = <<>>
    /\ returned = "none"
    /\ input \in {InputState(v) : v \in InitialData}
    /\ capture = NoCapture
    /\ keys \in {Stream(c) \o <<"\r", "\n">> : c \in LegacyCards}

\* a handler was called: r is what it left, n keys were consumed, and
\* typed is the key whose change event is still to come
LegacyHandled(r, n, typed) ==
    /\ input' = r.o
    /\ capture' = LegacyTrack(capture, input, r)
    /\ returned' = IF r.how = "hang" THEN "never" ELSE "none"
    /\ keys' = SubSeq(keys, n + 1, Len(keys))
    /\ todo' = typed
    /\ UNCHANGED <<design, parser, parseVars, ioVars>>

\* onChange: the change event of the printable key just pressed, with the
\* value extended by the key; or all the printable keys are pasted; or,
\* once the card is typed, the last character of the value is deleted
ChangeEvent ==
    /\ returned # "never"
    /\ \/ /\ todo # <<>>
          /\ \E r \in {onChange(design, input, input.state.value \o todo)} :
                LegacyHandled(r, 1, <<>>)
       \/ /\ todo = <<>>
          /\ Printable(keys) >= 1
          /\ \E r \in {onChange(design, input,
                                input.state.value
                                   \o SubSeq(keys, 1, Printable(keys)))} :
                LegacyHandled(r, Printable(keys), <<>>)
       \/ /\ todo = <<>>
          /\ keys = <<>>
          /\ input.state.value # <<>>
          /\ \E r \in {onChange(design, input,
                                SubSeq(input.state.value, 1,
                                       Len(input.state.value) - 1))} :
                LegacyHandled(r, 0, <<>>)

\* the key events that can come next, with the number of keys they take
\* and the key whose change event follows: the next printable key, Alt and
\* the digits of the next key's Alt code, Enter, or Control+j
KeysDown ==
    {[e |-> KeyboardEvent(<<k>>, FALSE, FALSE), n |-> 0, typed |-> <<k>>]
        : k \in {k \in {Head(keys)} : Printable(keys) >= 1}}
    \cup {[e |-> KeyboardEvent(KeyAlt, TRUE, FALSE), n |-> 0, typed |-> <<>>]
        : k \in {k \in {Head(keys)} : HasAltCode(k)}}
    \cup {[e |-> KeyboardEvent(<<k>>, TRUE, FALSE), n |-> 0, typed |-> <<>>]
             : k \in {k \in Range(NUMS) :
                        /\ HasAltCode(Head(keys))
                        /\ input.state.isCapturingInput
                        /\ startsWith(AltCode(Head(keys)),
                                      input.altBuffer \o <<k>>)}}
    \cup {[e |-> KeyboardEvent(KeyEnter, FALSE, FALSE), n |-> 1,
           typed |-> <<>>]
             : k \in {k \in {Head(keys)} : k = "\r"}}
    \cup {[e |-> KeyboardEvent(<<"j">>, FALSE, TRUE), n |-> 1,
           typed |-> <<>>]
             : k \in {k \in {Head(keys)} : k = "\n"}}

\* onKeyDown(e); no other key goes down before the change event of a
\* printable key
KeyDownEvent ==
    /\ returned # "never"
    /\ keys # <<>>
    /\ todo = <<>>
    /\ \E down \in KeysDown :
          \E r \in {onKeyDown(design, input, down.e)} :
             LegacyHandled(r, down.n, down.typed)

\* onKeyUp: Alt goes up after the digits of the next key's code
KeyUpEvent ==
    /\ returned # "never"
    /\ keys # <<>>
    /\ todo = <<>>
    /\ HasAltCode(Head(keys))
    /\ input.state.isCapturingInput
    /\ input.altBuffer = AltCode(Head(keys))
    /\ \E r \in {onKeyUp(design, input, KeyboardEvent(KeyAlt, FALSE, FALSE))} :
          LegacyHandled(r, 1, <<>>)

\* the pending timeout fires: onTimeout()
LegacyTimeout ==
    /\ returned # "never"
    /\ input.timeout
    /\ input' = onTimeout(input)
    /\ capture' = IF input.state.isCapturingInput
                  THEN [capture EXCEPT
                          !.last = "none",
                          !.ended = IF input'.state.value = <<>>
                                       /\ input.parser # Undefined
                                       /\ input.parser.done
                                    THEN "done" ELSE "timeout"]
                  ELSE NoCapture
    /\ UNCHANGED <<keys, appendVars, parseVars, ioVars>>

NextLegacy ==
    ChangeEvent \/ KeyDownEvent \/ KeyUpEvent \/ LegacyTimeout

SpecLegacy == InitLegacy /\ [][NextLegacy]_vars

(***************************************************************************)
(* SpecialCharInput: alt codes, Enter and Ctrl+J                           *)
(*                                                                         *)
(* A returned string is the sequence of its character codes; <<>> stands   *)
(* for undefined (no handler returns the empty string).                    *)
(***************************************************************************)
\* parseInt(string, 10): leading white space, an optional sign, then the
\* longest run of decimal digits; no "0x" prefix with an explicit radix 10
parseInt10(s) ==
    LET n == Len(s)
        body == {i \in 1..n : s[i] \notin WhiteSpace}
    IN IF body = {} THEN NaN
       ELSE LET b == MinOf(body)
                signed == s[b] \in {"+", "-"}
                sign == IF s[b] = "-" THEN -1 ELSE 1
                first == IF signed THEN b + 1 ELSE b
                stops == {i \in first..n : ~isRadixDigit(s[i], 10)}
                last == IF stops = {} THEN n ELSE MinOf(stops) - 1
            IN IF last < first THEN NaN
               ELSE [nan |-> FALSE,
                     val |-> sign * toNumber(s, first, last, 10, 0)]

\* String.fromCharCode(num): one UTF-16 code unit, ToUint16(num)
CodeUnits == 65536
StringFromCharCode(num) == <<num % CodeUnits>>

\* the codes of the characters getSpecialChar returns
SpecialCharCodes ==
    << <<"\n", 10>>, <<"\\x1e", 30>>, <<"\r", 13>> >>

charCodes(str) ==
    [i \in 1..Len(str) |->
        SpecialCharCodes[CHOOSE k \in 1..Len(SpecialCharCodes)
                            : SpecialCharCodes[k][1] = str[i]][2]]

\* new SpecialCharInput()
SpecialCharInput == [altBuffer |-> <<>>]

\* appendAltCode(char)
appendAltCode(o, char) == [o EXCEPT !.altBuffer = @ \o char]

\* reset()
reset(o) == [o EXCEPT !.altBuffer = <<>>]

\* finish(): [ret, o]
finish(o) ==
    LET num == parseInt10(o.altBuffer)
    IN [ret |-> IF num.nan THEN <<>> ELSE StringFromCharCode(num.val),
        o |-> reset(o)]

\* SpecialCharInput.onKeyDown(e): [ret, o]
specialOnKeyDown(o, e) ==
    IF e.key = KeyAlt THEN [ret |-> <<>>, o |-> o]
    ELSE IF e.alt /\ includes(NUMS, e.key)
    THEN [ret |-> <<>>, o |-> [o EXCEPT !.altBuffer = @ \o e.key]]
    ELSE [ret |-> charCodes(getSpecialChar(e)), o |-> o]

\* SpecialCharInput.onKeyUp(e): [ret, o]
specialOnKeyUp(o, e) ==
    IF e.key = KeyAlt
    THEN IF Len(o.altBuffer) > 0 THEN finish(o)
         ELSE [ret |-> <<>>, o |-> reset(o)]
    ELSE [ret |-> <<>>, o |-> o]

(***************************************************************************)
(* Specification of SpecialCharInput: key events and the public methods in *)
(* any order.  `input` is the object; `capture` records the last call, its *)
(* return value, and the composition under way: whether a keydown of Alt   *)
(* opened it, whether the alt buffer was empty then, the digits typed      *)
(* since with Alt held, and whether every keydown of it returned           *)
(* undefined.                                                              *)
(***************************************************************************)
MaxAltBuffer == 5

\* the keys of a keyboard, and "56", which only a synthetic event carries
SpecialKeyNames ==
    {KeyAlt, <<"0">>, <<"5">>, <<"6">>, <<"j">>, KeyEnter, <<"5", "6">>}
SpecialEvents ==
    {KeyboardEvent(k, alt, ctrl)
        : k \in SpecialKeyNames, alt \in BOOLEAN, ctrl \in BOOLEAN}
AltCodeChars == {<<"1">>, <<"x">>}

NoComposition ==
    [op |-> "new", key |-> <<>>, ret |-> <<>>, active |-> FALSE,
     fresh |-> FALSE, digits |-> <<>>, quiet |-> TRUE, composed |-> FALSE]

InitSpecial ==
    /\ NoParseParser
    /\ NoAppendParser
    /\ NoStringIO
    /\ input = SpecialCharInput
    /\ capture = NoComposition
    /\ keys = <<>>

\* the record after a method call, which is no part of a composition
Called(op, ret) == [NoComposition EXCEPT !.op = op, !.ret = ret]

SpecialKeyDown ==
    \E e \in SpecialEvents : \E r \in {specialOnKeyDown(input, e)} :
        /\ Len(r.o.altBuffer) <= MaxAltBuffer
        /\ input' = r.o
        /\ capture' =
             IF e.key = KeyAlt
             THEN [op |-> "keydown", key |-> e.key, ret |-> r.ret,
                   active |-> TRUE, fresh |-> input.altBuffer = <<>>,
                   digits |-> <<>>, quiet |-> r.ret = <<>>,
                   composed |-> FALSE]
             ELSE IF capture.active /\ e.alt /\ Len(e.key) = 1
                     /\ includes(NUMS, e.key)
             THEN [capture EXCEPT !.op = "keydown", !.key = e.key,
                                  !.ret = r.ret,
                                  !.digits = @ \o e.key,
                                  !.quiet = @ /\ r.ret = <<>>]
             ELSE [Called("keydown", r.ret) EXCEPT !.key = e.key]
        /\ UNCHANGED <<keys, appendVars, parseVars, ioVars>>

SpecialKeyUp ==
    \E e \in SpecialEvents : \E r \in {specialOnKeyUp(input, e)} :
        /\ input' = r.o
        /\ capture' =
             IF e.key = KeyAlt
             THEN [capture EXCEPT !.op = "keyup", !.key = e.key,
                                  !.ret = r.ret, !.active = FALSE,
                                  !.composed = capture.active]
             ELSE [capture EXCEPT !.op = "keyup", !.key = e.key,
                                  !.ret = r.ret, !.composed = FALSE]
        /\ UNCHANGED <<keys, appendVars, parseVars, ioVars>>

AppendAltCodeCall ==
    \E char \in AltCodeChars :
        /\ Len(input.altBuffer) + Len(char) <= MaxAltBuffer
        /\ input' = appendAltCode(input, char)
        /\ capture' = Called("appendAltCode", <<>>)
        /\ UNCHANGED <<keys, appendVars, parseVars, ioVars>>

ResetCall ==
    /\ input' = reset(input)
    /\ capture' = Called("reset", <<>>)
    /\ UNCHANGED <<keys, appendVars, parseVars, ioVars>>

FinishCall ==
    \E r \in {finish(input)} :
        /\ input' = r.o
        /\ capture' = Called("finish", r.ret)
        /\ UNCHANGED <<keys, appendVars, parseVars, ioVars>>

NextSpecial ==
    SpecialKeyDown \/ SpecialKeyUp \/ AppendAltCodeCall \/ ResetCall
        \/ FinishCall

SpecSpecial == InitSpecial /\ [][NextSpecial]_vars

(***************************************************************************)
(* Properties of the step-queue parser                                     *)
(***************************************************************************)
HeaderFuncKinds ==
    {"marker", "dataElementSeparator", "recordSeparator", "segmentTerminator"}

Raised == outcome \in {"EOF", "HeaderParseError", "ParseError"}

\* parse() on a fresh parser whose reader holds the whole stream
SingleShot ==
    parse(StringIO(reader.data \o pending, 0), initialFuncs, initialResult)

\* C1: when the whole stream parses in one call, then however it is cut
\* into chunks every parse() call before completion raises EOF, the parse
\* completes once everything is appended, and the ParseResult returned
\* equals the single-shot one.
ChunkingIndependence ==
    SingleShot.out = "result" =>
        /\ outcome \in {"none", "EOF", "result"}
        /\ outcome = "result" => result = SingleShot.result
        /\ (pending = <<>> /\ outcome # "none") => outcome = "result"

ChunkedParseCompleted ==
    /\ outcome = "result"
    /\ suspended
    /\ SingleShot.out = "result"
    /\ Len(result.subfileDesignators) = 2
    /\ mapHas(result.subfiles, <<"D", "L">>)

\* C2: when parse() raises EOF, the cursor, the queue and the result are
\* what they were right before the function that raised it started, and
\* that function is still first in the queue.
NoPartialApplication ==
    outcome = "EOF" =>
        /\ funcs # <<>>
        /\ before = Held(reader.pos, funcs, result)

SuspendedInsideField ==
    /\ outcome = "EOF"
    /\ Head(funcs).k = "ansi"
    /\ avail(reader) \in 1..4
    /\ reader.pos = 4

\* C3: once parse() has raised a HeaderParseError or a ParseError, no later
\* call moves the cursor, changes the queue or the result, or returns a
\* ParseResult.
FailureIsTerminal ==
    [][firstErr # NoErr =>
          /\ reader'.pos = reader.pos
          /\ funcs' = funcs
          /\ result' = result
          /\ outcome' # "result"]_vars

\* Further input tried: nothing or a digit, then a run of one character of
\* at most MaxExt
MaxExt == 16

ExtChars == {"$", "|", "Z", "0", "@"}

Repeat(c, n) == [i \in 1..n |-> c]

Extensions ==
    {a \o Repeat(c, n) : a \in {<<>>, <<"9">>}, c \in ExtChars, n \in 1..MaxExt}

\* some further data makes the next parse() call stop raising EOF
Recoverable ==
    \E ext \in Extensions : parse(append(reader, ext), funcs, result).out # "EOF"

\* C4: whenever parse() raises EOF, some further data makes a later call
\* return a result or raise a validation error.
InsufficientDataIsRecoverable == outcome = "EOF" => Recoverable

\* the i-th 10-character block after the 21-character header (i from 1)
DesignatorBlock(data, i) ==
    SubSeq(data, HEADER_SIZE + SUBFILE_DESIGNATOR_SIZE * (i - 1) + 1,
           HEADER_SIZE + SUBFILE_DESIGNATOR_SIZE * i)

\* C5: the designators collected never outnumber numEntries, and a
\* returned ParseResult has exactly numEntries of them, the i-th decoded
\* from the i-th 10-character block after the 21-character header.
ExactEntryCount ==
    /\ Len(result.subfileDesignators) <= result.header.numEntries
    /\ outcome = "result" =>
        /\ Len(result.subfileDesignators) = result.header.numEntries
        /\ \A i \in 1..Len(result.subfileDesignators) :
              LET d == decodeDesignator(DesignatorBlock(reader.data, i))
              IN result.subfileDesignators[i] =
                    [type |-> d.type, offset |-> d.offset.val,
                     length |-> d.length.val]

LogOf(k) == {i \in 1..Len(log) : log[i].k = k}

\* C6: a designator function that finds fewer than 10 characters raises
\* EOF, whatever they are, and leaves the cursor at the start of the
\* block; a designator function that raises leaves the cursor there; one
\* that returns has had the whole block, parsed its offset and length and
\* moved the cursor by 10.
DesignatorBlockIsAtomic ==
    /\ (Raised /\ Head(funcs).k = "parseSubfileDesignator") =>
          /\ reader.pos = before.pos
          /\ avail(reader) < SUBFILE_DESIGNATOR_SIZE => outcome = "EOF"
    /\ \A i \in LogOf("parseSubfileDesignator") :
          LET d == decodeDesignator(
                      SubSeq(reader.data, log[i].at + 1,
                             log[i].at + SUBFILE_DESIGNATOR_SIZE))
          IN /\ log[i].to = log[i].at + SUBFILE_DESIGNATOR_SIZE
             /\ log[i].to <= Len(reader.data)
             /\ ~d.offset.nan /\ ~d.length.nan

PartialGarbageBlock ==
    /\ outcome = "EOF"
    /\ Head(funcs).k = "parseSubfileDesignator"
    /\ avail(reader) \in 3..9
    /\ reader.data[reader.pos + 3] = "Z"

\* the positions among 1, 2, 3 whose character is there and is a letter, a
\* digit or a space
BadSeparatorsAt(data) ==
    {k \in 1..3 : k < Len(data) /\ invalidSeparatorPattern(data[k + 1])}

\* C7: when the buffer starts with '@' and the first letter, digit or space
\* among positions 1..3 is at k, the first parse() call that has position k
\* raises HeaderParseError there; and no stored separator is a letter, a
\* digit or a space.
SeparatorRejection ==
    /\ ( /\ outcome # "none"
         /\ reader.data # <<>>
         /\ reader.data[1] = "@"
         /\ BadSeparatorsAt(reader.data) # {} ) =>
            firstErr = [out |-> "HeaderParseError",
                        at |-> MinOf(BadSeparatorsAt(reader.data))]
    /\ \A sep \in {result.header.dataElementSeparator,
                   result.header.recordSeparator,
                   result.header.segmentTerminator} :
          sep # <<>> => ~invalidSeparatorPattern(sep[1])

SecondSeparatorRejected ==
    /\ outcome = "HeaderParseError"
    /\ reader.data[1] = "@"
    /\ BadSeparatorsAt(reader.data) = {2}
    /\ Len(reader.data) > 3
    /\ firstErr.at = 2
    /\ reader.pos = 3

AllDigits(text) == \A i \in 1..Len(text) : text[i] \in Digit

RECURSIVE DecimalValue(_)
DecimalValue(text) ==
    IF text = <<>> THEN 0
    ELSE 10 * DecimalValue(SubSeq(text, 1, Len(text) - 1))
         + (CHOOSE v \in 0..9 : DecDigits[v + 1] = text[Len(text)])

TextAt(at, from, to) == SubSeq(reader.data, at + from, at + to)

\* C8: every numEntries, offset and length that was stored was read from
\* characters that are all decimal digits, and is the number they denote.
NumericFieldsValidated ==
    /\ \A i \in LogOf("numEntries") :
          /\ AllDigits(TextAt(log[i].at, 1, 2))
          /\ result.header.numEntries = DecimalValue(TextAt(log[i].at, 1, 2))
    /\ \A j \in 1..Cardinality(LogOf("parseSubfileDesignator")) :
          LET i == CHOOSE x \in LogOf("parseSubfileDesignator") :
                      Cardinality({y \in LogOf("parseSubfileDesignator") : y <= x}) = j
              sd == result.subfileDesignators[j]
          IN /\ AllDigits(TextAt(log[i].at, 3, 10))
             /\ sd.offset = DecimalValue(TextAt(log[i].at, 3, 6))
             /\ sd.length = DecimalValue(TextAt(log[i].at, 7, 10))

\* C9: a validation error is a HeaderParseError exactly when the function
\* that raised it is the '@' marker or one of the three separators; the
\* "ANSI " literal, numEntries, a designator and a record key raise a
\* ParseError that is no HeaderParseError; EOF is neither.
ErrorClassification ==
    /\ instanceOf(outcome, "ParseError") =>
          /\ outcome = "HeaderParseError" <=> Head(funcs).k \in HeaderFuncKinds
          /\ outcome = "ParseError" <=>
                Head(funcs).k \in {"ansi", "numEntries",
                                   "parseSubfileDesignator", "parseRecord"}
    /\ outcome = "EOF" =>
          /\ ~instanceOf(outcome, "ParseError")
          /\ ~instanceOf(outcome, "HeaderParseError")

BadRecordKeyRaised ==
    /\ outcome = "ParseError"
    /\ Head(funcs).k = "parseRecord"
    /\ firstErr.out = "ParseError"

WellFormedHeader(h) ==
    /\ Len(h) = HEADER_SIZE
    /\ h[1] = "@"
    /\ \A k \in 2..4 : ~invalidSeparatorPattern(h[k])
    /\ SubSeq(h, 5, 9) = <<"A", "N", "S", "I", " ">>
    /\ AllDigits(SubSeq(h, 20, 21))

\* C10: when the first 21 characters of the buffer are a well-formed
\* header, a parse() call that has them stores the characters at 1, 2, 3
\* as the separators, 9..14 as iin, 15..16 as aamvaVersion, 17..18 as
\* jurisdictionVersion and the decimal value of 19..20 as numEntries, and
\* the function storing numEntries leaves the cursor at 21.
HeaderExtraction ==
    LET d == reader.data
    IN ( /\ outcome # "none"
         /\ Len(d) >= HEADER_SIZE
         /\ WellFormedHeader(SubSeq(d, 1, HEADER_SIZE)) ) =>
            /\ result.header =
                  [dataElementSeparator |-> <<d[2]>>,
                   recordSeparator |-> <<d[3]>>,
                   segmentTerminator |-> <<d[4]>>,
                   iin |-> SubSeq(d, 10, 15),
                   aamvaVersion |-> SubSeq(d, 16, 17),
                   jurisdictionVersion |-> SubSeq(d, 18, 19),
                   numEntries |-> DecimalValue(SubSeq(d, 20, 21))]
            /\ \E i \in LogOf("numEntries") : log[i].to = HEADER_SIZE

HeaderJustParsed ==
    /\ outcome = "EOF"
    /\ Len(reader.data) = HEADER_SIZE
    /\ WellFormedHeader(reader.data)
    /\ reader.pos = HEADER_SIZE
    /\ result.header.numEntries = 2
    /\ result.header.iin = <<"6", "3", "6", "0", "0", "0">>

(***************************************************************************)
(* Record scan of a DL/ID subfile                                          *)
(***************************************************************************)
\* the pieces of text between occurrences of sep
RECURSIVE SplitBy(_, _)
SplitBy(text, sep) ==
    LET at == {i \in 1..Len(text) : text[i] = sep}
    IN IF at = {} THEN <<text>>
       ELSE <<SubSeq(text, 1, MinOf(at) - 1)>>
            \o SplitBy(SubSeq(text, MinOf(at) + 1, Len(text)), sep)

\* the records k1 v1, ..., kn vn of a declared range: what follows the
\* 2-character marker up to the final character, cut at the separators
RecordsOf(range, sep) == SplitBy(SubSeq(range, 3, Len(range) - 1), sep)

\* a 2-character marker, then records separated by one data-element
\* separator, the last followed by the segment terminator
WellFormedRange(range, h) ==
    /\ h.dataElementSeparator # h.segmentTerminator
    /\ Len(range) >= 6
    /\ <<range[Len(range)]>> = h.segmentTerminator
    /\ \A i \in 3..(Len(range) - 1) : <<range[i]>> # h.segmentTerminator
    /\ \A j \in 1..Len(RecordsOf(range, h.dataElementSeparator[1])) :
          LET rec == RecordsOf(range, h.dataElementSeparator[1])[j]
          IN Len(rec) >= 3 /\ \A i \in 1..3 : rec[i] \in UpperCase

\* the map {k1: v1, ..., kn: vn} as a set of <<key, value>> pairs; of two
\* records with one key the later one counts
RecordMap(range, h) ==
    LET recs == RecordsOf(range, h.dataElementSeparator[1])
        key(j) == SubSeq(recs[j], 1, 3)
    IN {<<key(j), SubSeq(recs[j], 4, Len(recs[j]))>> :
           j \in {j \in 1..Len(recs) :
                     \A l \in (j + 1)..Len(recs) : key(l) # key(j)}}

\* the function that ended the record scan started by log entry j
ScanEnd(j) ==
    {i \in LogOf("maybeParseRecord") :
        /\ i > j
        /\ log[i].last
        /\ \A l \in (j + 1)..(i - 1) :
              log[l].k \in {"maybeParseRecord", "parseRecord"} /\ ~log[l].last}

Entries(m) == {m[i] : i \in 1..Len(m)}

\* C11: for a DL or ID subfile whose declared range is a marker followed by
\* records k1 v1, ..., kn vn separated by one data-element separator and
\* ended by the segment terminator, the record scan ends, the record map
\* stored is exactly {k1: v1, ..., kn: vn}, and the subfile reader stands
\* right after the segment terminator.
RecordBoundaryCorrectness ==
    \A j \in LogOf("parseSubfile") :
        ( /\ isDLID(log[j].f.sd.type)
          /\ WellFormedRange(log[j].sf.data, result.header) ) =>
            /\ ScanEnd(j) # {}
            /\ \A i \in ScanEnd(j) :
                  /\ Entries(log[i].f.records)
                        = RecordMap(log[j].sf.data, result.header)
                  /\ Len(log[i].f.records)
                        = Cardinality(RecordMap(log[j].sf.data, result.header))
                  /\ log[i].sf.pos = Len(log[j].sf.data)
                  /\ <<log[j].f.sd.type, log[i].f.records>>
                        \in Entries(result.subfiles)

TwoRecordsStored ==
    /\ outcome = "result"
    /\ \E j \in LogOf("parseSubfile") :
          /\ WellFormedRange(log[j].sf.data, result.header)
          /\ Len(RecordsOf(log[j].sf.data, result.header.dataElementSeparator[1])) = 2
          /\ Cardinality(RecordMap(log[j].sf.data, result.header)) = 1
          /\ \E i \in ScanEnd(j) : log[i].f.records = << <<<<"D", "A", "Q">>, <<>>>> >>

\* parse() on a fresh parser whose reader holds all of data
ParseWhole(data) == parse(StringIO(data, 0), initialFuncs, initialResult)

\* the cards whose DL/ID subfile has a data-element separator directly
\* before its segment terminator, each with the single-shot parse of the
\* card without that separator (offsets and lengths adjusted)
ExtraSeparatorStreams ==
    UNION {{[with |-> Stream(c),
             without |-> ParseWhole(Stream([c EXCEPT !.body = b[2]]))] :
               c \in {c \in Cards : c.body = b[1] /\ c.layout \notin {1, 4}}}
             : b \in ExtraSeparatorBodies}

\* C12: when a card parses, the same card with a data-element separator
\* directly before the segment terminator of its DL/ID subfile parses too,
\* without any validation error, and its ParseResult has the same header
\* and the same subfiles map.
ExtraSeparatorIsHarmless ==
    \A p \in ExtraSeparatorStreams :
        (p.with = reader.data \o pending /\ p.without.out = "result") =>
            /\ outcome \in {"none", "EOF", "result"}
            /\ (pending = <<>> /\ outcome # "none") => outcome = "result"
            /\ outcome = "result" =>
                  /\ result.header = p.without.result.header
                  /\ result.subfiles = p.without.result.subfiles

ExtraSeparatorParsed ==
    /\ outcome = "result"
    /\ \E p \in ExtraSeparatorStreams :
          p.with = reader.data /\ p.without.out = "result"
    /\ \E j \in LogOf("parseSubfile") :
          /\ isDLID(log[j].f.sd.type)
          /\ SubSeq(log[j].sf.data, Len(log[j].sf.data) - 1, Len(log[j].sf.data))
                = result.header.dataElementSeparator \o result.header.segmentTerminator
    /\ result.subfiles = << <<<<"D", "L">>, << <<<<"D", "A", "Q">>, <<"T">>>> >>>> >>

\* the declared range of a designator lies in the buffer
RangeInBuffer(sd, data) == sd.offset + sd.length <= Len(data)

\* C13: a subfile function for a type other than "DL" and "ID" raises
\* nothing once the declared range lies in the buffer; when it has
\* returned, it has no follow-up, its designator is in subfileDesignators
\* and its type is no key of subfiles; the keys of subfiles are always
\* among "DL" and "ID".
UnrecognizedTypeTolerance ==
    /\ \A e \in Entries(result.subfiles) : isDLID(e[1])
    /\ ( /\ Raised
         /\ Head(funcs).k = "parseSubfile"
         /\ ~isDLID(Head(funcs).sd.type) ) =>
            /\ outcome = "EOF"
            /\ ~RangeInBuffer(Head(funcs).sd, reader.data)
    /\ \A j \in LogOf("parseSubfile") :
          ~isDLID(log[j].f.sd.type) =>
              /\ log[j].last
              /\ log[j].f.sd \in Entries(result.subfileDesignators)
              /\ ~mapHas(result.subfiles, log[j].f.sd.type)

UnrecognizedTypeSkipped ==
    /\ outcome = "result"
    /\ \E j \in LogOf("parseSubfile") :
          /\ log[j].f.sd.type = <<"Z", "V">>
          /\ RangeInBuffer(log[j].f.sd, reader.data)
    /\ Len(result.subfileDesignators) = 2
    /\ Len(result.subfiles) = 1
    /\ mapHas(result.subfiles, <<"I", "D">>)

\* the subfile reader stands at a data-element separator
AtSeparator(sf) ==
    ~peek(sf, 1).eof /\ peek(sf, 1).s = result.header.dataElementSeparator

\* C18: in the record scan of a DL/ID subfile, a data-element separator
\* found where a record or the end is awaited raises no error; the function
\* that finds it consumes it and adds no record.
SeparatorBeforeRecordSkipped ==
    /\ ( /\ funcs # <<>>
         /\ Head(funcs).k \in {"maybeParseRecord", "parseRecord"}
         /\ AtSeparator(Head(funcs).sf) ) => ~instanceOf(outcome, "ParseError")
    /\ \A i \in LogOf("maybeParseRecord") :
          AtSeparator(log[i].f.sf) =>
              /\ log[i].sf.pos = log[i].f.sf.pos + 1
              /\ ~log[i].last

\* C19: a record scan ends, and the record map is entered into subfiles,
\* only by a function that has consumed a segment terminator of the
\* declared range; every entry of subfiles comes from such a function.
DoneOnlyAfterTerminator ==
    /\ \A i \in LogOf("maybeParseRecord") :
          log[i].last =>
              /\ log[i].sf.pos = log[i].f.sf.pos + 1
              /\ <<log[i].sf.data[log[i].sf.pos]>> = result.header.segmentTerminator
    /\ \A e \in Entries(result.subfiles) :
          \E i \in LogOf("maybeParseRecord") :
              log[i].last /\ log[i].f.sfType = e[1] /\ log[i].f.records = e[2]

\* some collected designator's range is not fully in the buffer
RangeMissing ==
    \E i \in 1..Len(result.subfileDesignators) :
        ~RangeInBuffer(result.subfileDesignators[i], reader.data)

\* C20 as stated: a returned ParseResult has every collected designator's
\* range in the buffer, and a parse() call made while some collected
\* designator's range is not fully in the buffer raises EOF.
RangesValidatedOrEOF ==
    /\ outcome = "result" => ~RangeMissing
    /\ (outcome # "none" /\ RangeMissing) => outcome = "EOF"

\* C20 amended: a returned ParseResult has every collected designator's
\* range in the buffer, and a parse() call made while some collected
\* designator's range is not fully in the buffer returns no ParseResult:
\* it raises EOF, or the ParseError of a designator block or of a record.
RangesValidatedBeforeCompletion ==
    /\ outcome = "result" => ~RangeMissing
    /\ (outcome # "none" /\ RangeMissing) =>
          \/ outcome = "EOF"
          \/ /\ outcome = "ParseError"
             /\ Head(funcs).k \in {"parseSubfileDesignator", "parseRecord"}

ErrorBeforeRangeArrived ==
    /\ outcome = "ParseError"
    /\ Head(funcs).k = "parseRecord"
    /\ Len(result.subfileDesignators) = 2
    /\ RangeInBuffer(result.subfileDesignators[1], reader.data)
    /\ ~RangeInBuffer(result.subfileDesignators[2], reader.data)

(***************************************************************************)
(* Snapshot of a subfile body                                              *)
(***************************************************************************)
\* the characters of data at the positions offset .. offset + length - 1
DeclaredRange(data, sd) ==
    SubSeq(data, Clamp(sd.offset, Len(data)) + 1,
           Clamp(sd.offset + sd.length, Len(data)))

\* the end of the header and of the designator blocks
DirectoryEnd(res) ==
    HEADER_SIZE + SUBFILE_DESIGNATOR_SIZE * Len(res.subfileDesignators)

\* data with every character after the directory and outside the declared
\* range of sd replaced by x, and two more x behind it
OutsideReplaced(data, res, sd, x) ==
    [i \in 1..Len(data) |->
        IF \/ i <= DirectoryEnd(res)
           \/ (sd.offset < i /\ i <= sd.offset + sd.length)
        THEN data[i] ELSE x] \o <<x, x>>

\* the subfile function of sd and its record functions run on their own
IsolatedScan(data, res, sd) ==
    parse(StringIO(data, 0), <<[Func("parseSubfile") EXCEPT !.sd = sd]>>,
          [res EXCEPT !.subfiles = <<>>])

\* the functions of the record scan started by log entry j
ScanOf(j) ==
    {i \in (j + 1)..Len(log) :
        \A l \in (j + 1)..i : log[l].k \in {"maybeParseRecord", "parseRecord"}}

\* C21: the subfile reader of a DL or ID subfile holds the characters of
\* the declared range and nothing else, and every function of the record
\* scan reads from it; what the scan yields (the record map, or the error)
\* is the same on every buffer with the same header and designators and
\* the same characters in the declared range.
SnapshotIsolation ==
    \A j \in LogOf("parseSubfile") :
        isDLID(log[j].f.sd.type) =>
            /\ log[j].sf.data = DeclaredRange(reader.data, log[j].f.sd)
            /\ \A i \in ScanOf(j) :
                  /\ log[i].f.sf.data = log[j].sf.data
                  /\ log[i].sf.data = log[j].sf.data
                  /\ log[i].sf.pos \in 0..Len(log[j].sf.data)
            /\ \A x \in {"$", "|", "Z"} :
                  LET here == IsolatedScan(reader.data, result, log[j].f.sd)
                      there == IsolatedScan(
                                   OutsideReplaced(reader.data, result,
                                                   log[j].f.sd, x),
                                   result, log[j].f.sd)
                  IN /\ here.out = there.out
                     /\ here.result.subfiles = there.result.subfiles
                     /\ \A i \in ScanEnd(j) :
                           /\ here.out = "result"
                           /\ here.result.subfiles
                                 = << <<log[j].f.sd.type, log[i].f.records>> >>

(***************************************************************************)
(* Properties of the append-driven parsers                                 *)
(***************************************************************************)
\* C14: whenever append has returned, it returned true exactly when
\* neither done nor error is set afterwards, and false exactly when one of
\* them is; done and error are never both set.
AppendReturnValue ==
    /\ returned \in {"true", "false"} =>
          /\ returned = "true" <=> (~parser.done /\ parser.error = "none")
          /\ returned = "false" <=> (parser.done \/ parser.error # "none")
    /\ ~(parser.done /\ parser.error # "none")

AppendConcluded ==
    /\ design = "steps"
    /\ returned = "false"
    /\ parser.done
    /\ parser.reader.pos = HEADER_SIZE + SUBFILE_DESIGNATOR_SIZE
    /\ mapHas(parser.subfiles, <<"D", "L">>)
    /\ todo # <<>>

\* C24: once done or error is set, an append call returns false and leaves
\* the buffer, header, subfileDesignators, subfiles, done and error as they
\* were: the data handed over is dropped.
TerminalStateAbsorbs ==
    [][(parser.done \/ parser.error # "none") =>
          /\ returned' = "false"
          /\ parser'.reader.data = parser.reader.data
          /\ parser'.header = parser.header
          /\ parser'.subfileDesignators = parser.subfileDesignators
          /\ parser'.subfiles = parser.subfiles
          /\ parser'.done = parser.done
          /\ parser'.error = parser.error
          /\ parser' = parser]_vars

InputDroppedAfterError ==
    /\ parser.error = "ParseError"
    /\ parser.reader.data = <<"@", "A">>
    /\ todo = <<>>
    /\ returned = "false"

(***************************************************************************)
(* Properties of the two step-queue designs                                *)
(***************************************************************************)
\* how many designator steps the loop over numEntries makes
DesignatorSteps(numEntries) == IF numEntries > 0 THEN numEntries ELSE 0

HeaderOrder ==
    <<"marker", "dataElementSeparator", "recordSeparator", "segmentTerminator",
      "ansi", "iin", "aamvaVersion", "jurisdictionVersion", "numEntries">>

\* the steps of a run l in the order header sub-steps, designator steps,
\* subfile steps: pre holds the steps in front of the designator steps,
\* mid the one between the designator steps and the subfile steps, and
\* every later step has a kind of rest
InOrder(l, pre, n, designator, mid, rest) ==
    \A i \in 1..Len(l) :
        /\ i <= Len(pre) => l[i].k = pre[i]
        /\ (Len(pre) < i /\ i <= Len(pre) + n) => l[i].k = designator
        /\ (Len(pre) + n < i /\ i <= Len(pre) + n + Len(mid)) =>
              l[i].k = mid[i - Len(pre) - n]
        /\ i > Len(pre) + n + Len(mid) => l[i].k \in rest

\* the subfile steps of a run are those of the designators, in their order
SubfilesInOrder(l, subfile, sdOf(_), designators, complete) ==
    LET sfs == SelectSeq(l, LAMBDA e : e.k = subfile)
    IN /\ Len(sfs) <= Len(designators)
       /\ \A j \in 1..Len(sfs) : sdOf(sfs[j]) = designators[j]
       /\ complete => Len(sfs) = Len(designators)

\* the step list a step of the mutable design found
StepsBefore(i) == IF i = 1 THEN mutInitialSteps ELSE parser.ran[i - 1].steps

\* the queue a function of the immutable design found
QueueBefore(i) == IF i = 1 THEN initialFuncs ELSE log[i - 1].queue

IsPrefix(a, b) == Len(a) <= Len(b) /\ SubSeq(b, 1, Len(a)) = a

\* C22: in both step-queue designs the header sub-steps complete in their
\* listed order, then the designator steps, as many as numEntries says, and
\* only then the subfile steps, one per designator in designator order;
\* the follow-ups a function returns take its place at the front of the
\* queue, and a step leaves the steps pending behind it in the list, in
\* their order.
StepOrdering ==
    /\ design = "none" =>
          /\ InOrder(log, <<"parseHeader">> \o HeaderOrder,
                     0, "none", <<"parseSubfileDesignators">>,
                     {"parseSubfileDesignator", "parseSubfiles", "parseSubfile",
                      "maybeParseRecord", "parseRecord"})
          /\ InOrder(log, <<"parseHeader">> \o HeaderOrder
                             \o <<"parseSubfileDesignators">>,
                     DesignatorSteps(result.header.numEntries),
                     "parseSubfileDesignator", <<"parseSubfiles">>,
                     {"parseSubfile", "maybeParseRecord", "parseRecord"})
          /\ SubfilesInOrder(log, "parseSubfile", LAMBDA e : e.f.sd,
                             result.subfileDesignators, outcome = "result")
          /\ \A i \in 1..Len(log) :
                /\ log[i].f = Head(QueueBefore(i))
                /\ log[i].queue = log[i].next \o Tail(QueueBefore(i))
          /\ funcs = QueueBefore(Len(log) + 1)
    /\ design = "steps" =>
          /\ InOrder(parser.ran, HeaderOrder, 0, "none", <<"designators">>,
                     {"designator", "subfile"})
          /\ InOrder(parser.ran, HeaderOrder \o <<"designators">>,
                     DesignatorSteps(parser.header.numEntries),
                     "designator", <<>>, {"subfile"})
          /\ SubfilesInOrder(parser.ran, "subfile", LAMBDA e : e.sd,
                             parser.subfileDesignators, parser.done)
          /\ \A i \in 1..Len(parser.ran) :
                /\ parser.ran[i].k = Head(StepsBefore(i)).k
                /\ IsPrefix(Tail(StepsBefore(i)), parser.ran[i].steps)
          /\ parser.steps = StepsBefore(Len(parser.ran) + 1)

StepsRanInOrder ==
    /\ design = "none"
    /\ outcome = "result"
    /\ suspended
    /\ Len(result.subfileDesignators) = 2
    /\ Cardinality(LogOf("parseSubfile")) = 2
    /\ Cardinality(LogOf("parseRecord")) = 1

\* C23: across append and parse() calls the buffer only grows at its end,
\* the cursor never goes back and stays within 0 .. data.length, the
\* functions that have returned stay returned, each took its characters
\* behind those of the ones before it, and a header sub-step that has
\* returned is in the queue no more.
NoRescanning ==
    [][/\ IsPrefix(reader.data, reader'.data)
       /\ reader.pos <= reader'.pos
       /\ 0 <= reader'.pos /\ reader'.pos <= Len(reader'.data)
       /\ IsPrefix(log, log')
       /\ \A i \in 1..Len(log') :
             /\ log'[i].at <= log'[i].to
             /\ log'[i].to <= reader'.pos
             /\ \A j \in (i + 1)..Len(log') :
                   /\ log'[i].to <= log'[j].at
                   /\ log'[i].k = log'[j].k =>
                         log'[i].k \in {"parseSubfileDesignator", "parseSubfile",
                                        "maybeParseRecord", "parseRecord"}
             /\ log'[i].k \in Range(HeaderOrder) =>
                   \A l \in 1..Len(funcs') : funcs'[l].k # log'[i].k
       /\ Cardinality(LogOf("parseSubfileDesignator"))
             <= DesignatorSteps(result.header.numEntries)
       /\ Cardinality(LogOf("parseSubfile")) <= Len(result.subfileDesignators)
      ]_vars

ResumedInsideHeader ==
    /\ outcome = "EOF"
    /\ Head(funcs).k = "jurisdictionVersion"
    /\ avail(reader) = 1
    /\ reader.pos = 17
    /\ Len(log) = 8
    /\ log[8].k = "aamvaVersion"

\* the value of key in a map kept as a sequence of pairs, Undefined when
\* the key is not there
mapGet(m, key) ==
    IF mapHas(m, key) THEN (CHOOSE e \in Entries(m) : e[1] = key)[2] ELSE Undefined

\* the mutable design made over nothing and given all of data in one append
AppendWhole(data) == mutAppend(mutParser(<<>>), data).p

\* C25: on a buffer fed whole, the mutable design reaches done exactly when
\* parse() of the immutable design returns a ParseResult, and then header,
\* designators and the record maps of DL and ID are equal; the mutable
\* design sets error exactly when parse() raises a ParseError.
DesignsAgree ==
    ( /\ design = "steps"
      /\ todo = <<>>
      /\ returned # "none"
      /\ parser = AppendWhole(parser.reader.data) ) =>
        LET whole == ParseWhole(parser.reader.data)
        IN /\ parser.done <=> whole.out = "result"
           /\ parser.error # "none" <=> instanceOf(whole.out, "ParseError")
           /\ parser.done =>
                 /\ parser.header = whole.result.header
                 /\ parser.subfileDesignators = whole.result.subfileDesignators
                 /\ \A type \in {<<"D", "L">>, <<"I", "D">>} :
                       mapGet(parser.subfiles, type)
                          = mapGet(whole.result.subfiles, type)

(***************************************************************************)
(* Properties of StringIO                                                  *)
(***************************************************************************)
\* the n characters of data at positions pos..pos+n-1, when there are such
CharsAt(data, pos, n, text) ==
    /\ Len(text) = n
    /\ \A i \in 0..(n - 1) :
          pos + i \in 0..(Len(data) - 1) /\ text[i + 1] = data[pos + i + 1]

\* C15: peek(n) raises EOF exactly when n > data.length - pos, and else
\* returns the n characters at positions pos..pos+n-1; either way pos,
\* data and avail are what they were; two consecutive peek(n) calls return
\* the same.
PeekContract ==
    call.op = "peek" =>
        /\ call.eof <=> call.n > Len(call.was.data) - call.was.pos
        /\ ~call.eof => CharsAt(call.was.data, call.was.pos, call.n, call.ret)
        /\ sio = call.was
        /\ avail(sio) = avail(call.was)
        /\ (prev.op = "peek" /\ prev.n = call.n) =>
              (prev.eof = call.eof /\ prev.ret = call.ret)

\* C16: read(n) raises EOF exactly when n > avail and then leaves the
\* reader as it was; else it returns what peek(n) returns (what the peek(n)
\* made right before it returned), leaves data alone and moves pos forward
\* by n, so avail drops by n.
ReadContract ==
    call.op = "read" =>
        /\ call.eof <=> call.n > avail(call.was)
        /\ call.eof => sio = call.was
        /\ ~call.eof =>
              /\ call.ret = peek(call.was, call.n).s
              /\ sio.data = call.was.data
              /\ sio.pos = call.was.pos + call.n
              /\ avail(sio) = avail(call.was) - call.n
        /\ (prev.op = "peek" /\ prev.n = call.n) =>
              (prev.eof = call.eof /\ prev.ret = call.ret)

ReadAfterPeek ==
    /\ call.op = "read"
    /\ prev.op = "peek"
    /\ prev.n = 2 /\ call.n = 2
    /\ call.ret = <<"b", "a">>
    /\ call.was.pos = 1
    /\ sio.pos = 3

\* C17: append(d) raises nothing, leaves pos alone, makes data the old data
\* followed by d, and adds the length of d to avail.
AppendContract ==
    call.op = "append" =>
        /\ ~call.eof
        /\ sio.pos = call.was.pos
        /\ sio.data = call.was.data \o call.d
        /\ SubSeq(sio.data, 1, Len(call.was.data)) = call.was.data
        /\ avail(sio) = avail(call.was) + Len(call.d)

AppendedBehindCursor ==
    /\ call.op = "append"
    /\ call.d = <<"b">>
    /\ call.was = StringIO(<<"a", "b">>, 2)
    /\ prev.op = "read"
    /\ sio = StringIO(<<"a", "b", "b">>, 2)

(***************************************************************************)
(* Properties of the input handler _Input                                  *)
(***************************************************************************)
FreshCapture(o) ==
    /\ o.reader = StringIO(<<>>, 0)
    /\ o.parser = makeDLIDParser

\* the step fed characters to a running capture
FedCapture == input.state.isCapturing /\ capture'.last # "none"

\* what the handler does on each outcome of parse()
Reactions ==
    FedCapture =>
       /\ capture'.last = "result" =>
             /\ ~input'.state.isCapturing
             /\ input'.state.result # Undefined
             /\ input'.state.result.header.recordSeparator # <<>>
             /\ FreshCapture(input')
       /\ capture'.last = "HeaderParseError" =>
             /\ ~input'.state.isCapturing
             /\ FreshCapture(input')
       /\ capture'.last \in {"EOF", "ParseError"} =>
             /\ input'.state.isCapturing
             /\ input'.timeout
             /\ input'.reader.data = input.reader.data
                                       \o SubSeq(capture'.fed,
                                                 Len(capture.fed) + 1,
                                                 Len(capture'.fed))
             /\ input'.parser.funcs # <<>>

\* C26: while capturing, a returned ParseResult ends the capture, is stored
\* in state.result and leaves a fresh parser and reader; a HeaderParseError
\* ends the capture at once and leaves a fresh parser and reader; EOF and a
\* non-header ParseError keep the capture running on the same parser with
\* the timeout re-armed; and once a non-header ParseError was raised the
\* capture delivers no result: it ends only by timeout.
CaptureReactsToOutcomes ==
    [][/\ Reactions
       /\ (input.state.isCapturing /\ capture.failed
             /\ ~input'.state.isCapturing)
            => capture'.ended = "timeout"]_vars

\* C27: between any two calls of the handler, a timeout is pending exactly
\* when isCapturing is true; isParsingDLID implies isCapturing; when
\* isCapturing is false the reader's buffer is empty and the parser is
\* fresh; when isCapturing is true the reader's buffer starts with "@".
CaptureInvariants ==
    /\ input.timeout <=> input.state.isCapturing
    /\ input.state.isParsingDLID => input.state.isCapturing
    /\ ~input.state.isCapturing =>
          /\ input.reader.data = <<>>
          /\ input.reader.pos = 0
          /\ input.parser = makeDLIDParser
    /\ input.state.isCapturing =>
          /\ Len(input.reader.data) >= 1
          /\ input.reader.data[1] = "@"

\* a capture started by setValue holds four characters and waits for more
SetValueCaptureParsing ==
    /\ input.state.isCapturing
    /\ input.state.isParsingDLID
    /\ input.reader.data = <<"@", "@", "|", "^">>
    /\ capture.startValue = <<"q", "@">>
    /\ capture.last = "EOF"
    /\ input.timeout

Abandoned == capture.ended \in {"timeout", "HeaderParseError"}

EndsInAt(s) == Len(s) > 0 /\ s[Len(s)] = "@"

\* C28: whenever a capture ends by timeout or by HeaderParseError,
\* state.value afterwards is state.value at the moment the capture started
\* (which ends in "@") followed by every character appended during the
\* capture, in order.
NoCharacterLost ==
    Abandoned =>
       /\ EndsInAt(capture.startValue)
       /\ input.state.value = capture.startValue \o capture.fed

\* C28, amended: the same, except that a setValue call which replaced the
\* value during the capture leaves nothing of the value the capture started
\* with: state.value afterwards is the characters fed during the capture.
NoCharacterLostUnlessReplaced ==
    Abandoned =>
       /\ EndsInAt(capture.startValue)
       /\ input.state.value =
             (IF capture.replaced THEN <<>> ELSE capture.startValue)
                \o capture.fed

\* a capture that started from "x@" was fed "|^", then setValue("q@")
\* replaced the value, and the header error abandoned it
AbandonedAfterReplacement ==
    /\ capture.ended = "HeaderParseError"
    /\ capture.replaced
    /\ capture.startValue = <<"x", "@">>
    /\ capture.fed = <<"|", "^", "q", "@">>
    /\ input.state.value = <<"|", "^", "q", "@">>
    /\ ~input.state.isCapturing

\* C29: every capture ends: whatever parse() keeps answering (EOF, an
\* ignored ParseError), the pending timeout fires once no call re-arms it,
\* and isCapturing becomes false.
EveryCaptureEnds ==
    input.state.isCapturing ~> ~input.state.isCapturing

\* the whole card was typed, a ParseError was ignored on the way, and the
\* timeout has ended the capture
TimedOutAfterIgnoredError ==
    /\ capture.ended = "timeout"
    /\ capture.failed
    /\ keys = <<>>
    /\ ~input.state.isCapturing
    /\ ~input.timeout

(***************************************************************************)
(* Properties of the legacy input handler                                  *)
(***************************************************************************)
\* C30: whenever a capture of the legacy handler is abandoned, because the
\* parser reports an error before DL/ID input was recognised or because the
\* timeout fires, the visible value afterwards is the value when the
\* capture started followed by every character fed during the capture
\* after the "@": no typed character is lost or duplicated.
LegacyNoCharacterLost ==
    capture.ended \in {"error", "timeout"} =>
        input.state.value = capture.startValue \o capture.fed

(***************************************************************************)
(* Properties of SpecialCharInput                                          *)
(***************************************************************************)
\* the decimal number formed by digits in order
DecimalOf(digits) == toNumber(digits, 1, Len(digits), 10, 0)

\* a keyup of Alt has just closed a composition that a keydown of Alt
\* opened on an empty alt buffer
ComposedFresh ==
    /\ capture.op = "keyup"
    /\ capture.key = KeyAlt
    /\ capture.composed
    /\ capture.fresh

\* no keydown of the composition returned a character
AltKeyDownsSilent == ComposedFresh => capture.quiet

\* the keyup returns one character, with the code the digits spell
AltKeyUpReturnsCode ==
    ComposedFresh /\ Len(capture.digits) >= 1 =>
        capture.ret = <<DecimalOf(capture.digits)>>

\* a keyup of Alt with no digit typed returns nothing
AltKeyUpWithoutDigits ==
    ComposedFresh /\ capture.digits = <<>> => capture.ret = <<>>

\* after every keyup of Alt, finish() and reset() the alt buffer is empty
AltBufferEmptied ==
    \/ capture.op = "keyup" /\ capture.key = KeyAlt
    \/ capture.op \in {"finish", "reset"}
    => input.altBuffer = <<>>

\* C31: for keydown(Alt), then k >= 1 digit keydowns with Alt held, then
\* keyup(Alt), on an alt buffer that was empty at the keydown of Alt: no
\* keydown returns a character, the keyup returns exactly one character
\* whose code is the decimal number formed by the digits in order, and the
\* alt buffer is empty afterwards; a keyup(Alt) with no digits typed
\* returns nothing; after every keyup(Alt), finish() and reset() the alt
\* buffer is empty.
AltCodeComposition ==
    /\ AltKeyDownsSilent
    /\ AltKeyUpReturnsCode
    /\ AltKeyUpWithoutDigits
    /\ AltBufferEmptied

(***************************************************************************)
(* Properties of the single-pass parser's loop                             *)
(***************************************************************************)
\* C32: every append call of the single-pass parser terminates: for every
\* buffer content, directories in which several designators carry the same
\* type code included, the loop of updateParse exits by reaching done, by
\* EOF or by an error after finitely many updateParseOnce calls.
AppendTerminates ==
    design = "single" => returned # "never"

====
